---- MODULE Spec2Model ----
(***************************************************************************)
(* Verification model of dbuf_db: the storage layer (Storage, BufferPool,  *)
(* PagedStorage) and the executor layer (ObjectStorage, TableManager).     *)
(*                                                                         *)
(* The blob store (marble) is a partial map id -> bytes; a tombstone       *)
(* removes the id from its domain.  Pages, the allocator state, the table  *)
(* catalog and the stored rows are kept as the byte sequences bincode's    *)
(* standard configuration produces; every integer of the model stays       *)
(* below 251, so each varint is one byte.                                  *)
(***************************************************************************)
EXTENDS Integers, Sequences, FiniteSets, TLC

\* disk, st, cache: the machine (see below); tables: TableManagerState::tables;
\* rows: for each table, the rows its callers gave it (history, not program
\* state); freed: the ids freed and not handed out since, oldest first
\* (history); live: the ids a caller of Storage was handed and has not given
\* back (history); shadow: for each page a caller of the buffer pool changed,
\* the page as that caller left it
\* (history); planner: QueryPlanner::state; last: the latest call and what it
\* returned
VARIABLES disk, st, cache, tables, rows, freed, live, shadow, planner, last

vars == <<disk, st, cache, tables, rows, freed, live, shadow, planner, last>>

(***************************************************************************)
(* Bounds of the model.                                                    *)
(***************************************************************************)
\* page_size handed to PagedStorage::new (the smallest one the contract covers)
PageSize == 64
\* capacity handed to BufferPool::new
Capacity == 1
\* number of page ids the allocator may hand out fresh (next_page_id stays
\* at most DEFAULT_PAGE + MaxIds)
MaxIds == 3
\* longest batch handed to insert_messages
MaxBatch == 2
\* most rows a table is given
MaxRows == 2

(***************************************************************************)
(* Program constants.                                                      *)
(***************************************************************************)
DEFAULT_PAGE == 100
STATE_INDEX == 0
TABLE_STATE_INDEX == 1
PLANNER_STATE_INDEX == 2

\* PageType discriminants (TableData, IndexData, Free)
TableData == 0

\* DBValue / DBType discriminants, in declaration order
TagOf(t) ==
    CASE t = "Bool" -> 0
      [] t = "Double" -> 1
      [] t = "Int" -> 2
      [] t = "UInt" -> 3
      [] t = "String" -> 4
      [] t = "Message" -> 5
      [] t = "EnumValue" -> 6

(***************************************************************************)
(* Values and types (schema.rs).  A Message is a sequence of values; the   *)
(* model's rows carry type_name = None.  Strings are sequences of bytes.   *)
(* A Double is a pair <<n, d>> with d >= 0 standing for n / d: d = 0 is an  *)
(* infinity of the sign of n, and <<0, 0>> is NaN (rounding and the sign   *)
(* of zero are left out).                                                  *)
(***************************************************************************)
VBool(b) == [tag |-> "Bool", v |-> b]
VInt(i) == [tag |-> "Int", v |-> i]
VUInt(u) == [tag |-> "UInt", v |-> u]
VString(s) == [tag |-> "String", v |-> s]
VMessage(m) == [tag |-> "Message", v |-> m]
VEnum(deps, choice, values) ==
    [tag |-> "EnumValue", v |-> [dependencies |-> deps, choice |-> choice, values |-> values]]

Message(fields) == [fields |-> fields]

TPrim(t) == [tag |-> t]
TMessage(name, cols) == [tag |-> "Message", name |-> name, columns |-> cols]
\* DBType::EnumType(EnumType): dependencies are <<name, type>> pairs, a
\* variant is [name, content] with content a sequence of <<name, type>> pairs
TEnum(e) ==
    [tag |-> "EnumValue", name |-> e.name, dependencies |-> e.dependencies,
     variants |-> e.variants]
VDouble(n, d) == [tag |-> "Double", v |-> <<n, d>>]

Column(t) == [column_name |-> "c", column_type |-> t, dependencies |-> <<>>]

RECURSIVE match_type_value(_, _)
RECURSIVE match_all(_, _)
\* zip(types, values).all(match_type_value)
match_all(types, values) ==
    \A i \in 1..Len(types) :
        i <= Len(values) => match_type_value(types[i], values[i])

match_message(message_type, message) ==
    /\ Len(message_type.columns) = Len(message.fields)
    /\ match_all([i \in 1..Len(message_type.columns) |->
                    message_type.columns[i].column_type], message.fields)

\* the types of a sequence of (name, type) pairs
Seconds(pairs) == [i \in 1..Len(pairs) |-> pairs[i][2]]

\* match_enum with the bound on choice left out
match_enum_any_choice(enum_type, ev) ==
    /\ Len(enum_type.dependencies) = Len(ev.dependencies)
    /\ match_all(Seconds(enum_type.dependencies), ev.dependencies)
    /\ LET variant == enum_type.variants[(ev.choice % Len(enum_type.variants)) + 1] IN
       /\ Len(variant.content) = Len(ev.values)
       /\ match_all(Seconds(variant.content), ev.values)

match_enum(enum_type, ev) ==
    /\ Len(enum_type.dependencies) = Len(ev.dependencies)
    /\ match_all(Seconds(enum_type.dependencies), ev.dependencies)
    /\ ev.choice < Len(enum_type.variants)
    /\ LET variant == enum_type.variants[ev.choice + 1] IN
       /\ Len(variant.content) = Len(ev.values)
       /\ match_all(Seconds(variant.content), ev.values)

match_type_value(db_type, db_value) ==
    CASE db_type.tag = "Message" /\ db_value.tag = "Message" ->
            match_message(db_type, db_value.v)
      [] db_type.tag = "EnumValue" /\ db_value.tag = "EnumValue" ->
            match_enum(db_type, db_value.v)
      [] OTHER ->
            /\ db_type.tag \in {"Bool", "Double", "Int", "UInt", "String"}
            /\ db_type.tag = db_value.tag

(***************************************************************************)
(* bincode (config::standard()): little-endian varints, an enum is its     *)
(* variant index followed by the payload, a Vec or String is its length    *)
(* followed by the elements, Option is 0 / 1 + payload, i32 is zigzag.     *)
(***************************************************************************)
ZigZag(i) == IF i >= 0 THEN 2 * i ELSE -2 * i - 1
UnZigZag(n) == IF n % 2 = 0 THEN n \div 2 ELSE -((n + 1) \div 2)

Range(f) == {f[i] : i \in DOMAIN f}

RECURSIVE Concat(_)
Concat(ss) == IF ss = <<>> THEN <<>> ELSE Head(ss) \o Concat(Tail(ss))

EncodeValue(val) ==
    CASE val.tag = "Bool" -> <<TagOf("Bool"), IF val.v THEN 1 ELSE 0>>
      [] val.tag = "Int" -> <<TagOf("Int"), ZigZag(val.v)>>
      [] val.tag = "UInt" -> <<TagOf("UInt"), val.v>>
      [] val.tag = "String" -> <<TagOf("String"), Len(val.v)>> \o val.v

\* Message { type_name: None, fields }
EncodeMessage(message) ==
    <<0, Len(message.fields)>>
        \o Concat([i \in 1..Len(message.fields) |-> EncodeValue(message.fields[i])])

\* WrappedMessage::Real(message) is variant 0, WrappedMessage::Index(id) variant 1
EncodeReal(message) == <<0>> \o EncodeMessage(message)
EncodeIndex(id) == <<1, id>>

DecodeFail == [ok |-> FALSE]

\* one DBValue starting at b[pos]; next is the position after it
DecodeValue(b, pos) ==
    IF pos + 1 > Len(b) THEN DecodeFail
    ELSE CASE b[pos] = TagOf("Bool") ->
                IF b[pos + 1] \in {0, 1}
                THEN [ok |-> TRUE, v |-> VBool(b[pos + 1] = 1), next |-> pos + 2]
                ELSE DecodeFail
           [] b[pos] = TagOf("Int") ->
                [ok |-> TRUE, v |-> VInt(UnZigZag(b[pos + 1])), next |-> pos + 2]
           [] b[pos] = TagOf("UInt") ->
                [ok |-> TRUE, v |-> VUInt(b[pos + 1]), next |-> pos + 2]
           [] b[pos] = TagOf("String") ->
                IF pos + 1 + b[pos + 1] > Len(b) THEN DecodeFail
                ELSE [ok |-> TRUE,
                      v |-> VString(SubSeq(b, pos + 2, pos + 1 + b[pos + 1])),
                      next |-> pos + 2 + b[pos + 1]]
           [] OTHER -> DecodeFail

RECURSIVE DecodeFields(_, _, _, _)
DecodeFields(b, pos, n, acc) ==
    IF n = 0 THEN [ok |-> TRUE, fields |-> acc, next |-> pos]
    ELSE LET d == DecodeValue(b, pos) IN
         IF ~d.ok THEN DecodeFail
         ELSE DecodeFields(b, d.next, n - 1, Append(acc, d.v))

\* bincode::decode_from_slice::<WrappedMessage>: the record and the bytes read
DecodeWrapped(b) ==
    IF Len(b) < 2 THEN DecodeFail
    ELSE CASE b[1] = 1 -> [ok |-> TRUE, kind |-> "Index", id |-> b[2], read |-> 2]
           [] b[1] = 0 ->
                IF b[2] # 0 \/ Len(b) < 3 THEN DecodeFail
                ELSE LET d == DecodeFields(b, 4, b[3], <<>>) IN
                     IF ~d.ok THEN DecodeFail
                     ELSE [ok |-> TRUE, kind |-> "Real",
                           message |-> Message(d.fields), read |-> d.next - 1]
           [] OTHER -> DecodeFail

\* Page { header: { id, page_type, obj_count }, data }
EncodePage(page) ==
    <<page.id, page.page_type, page.obj_count, Len(page.data)>> \o page.data

DecodePage(b) ==
    IF Len(b) < 4 THEN DecodeFail
    ELSE IF b[2] > 2 \/ Len(b) < 4 + b[4] THEN DecodeFail
    ELSE [ok |-> TRUE,
          page |-> [id |-> b[1], page_type |-> b[2], obj_count |-> b[3],
                    data |-> SubSeq(b, 5, 4 + b[4])]]

\* StorageState { page_size, next_page_id, free_ids }
EncodeState(state) ==
    <<state.page_size, state.next_page_id, Len(state.free_ids)>> \o state.free_ids

DecodeState(b) ==
    [page_size |-> b[1], next_page_id |-> b[2], free_ids |-> SubSeq(b, 4, 3 + b[3])]

\* The strings of the model (table, type and column names) and their UTF-8
Strings == {"", "A", "B", "c", "Pair", "Text", "Wrap"}
Utf8(s) ==
    CASE s = "" -> <<>>
      [] s = "A" -> <<65>>
      [] s = "B" -> <<66>>
      [] s = "c" -> <<99>>
      [] s = "Pair" -> <<80, 97, 105, 114>>
      [] s = "Text" -> <<84, 101, 120, 116>>
      [] s = "Wrap" -> <<87, 114, 97, 112>>

EncodeString(s) == <<Len(Utf8(s))>> \o Utf8(s)
EncodeVec(ids) == <<Len(ids)>> \o ids

\* a String at b[pos]; fails on bytes that spell no string of the model
DecodeString(b, pos) ==
    IF pos > Len(b) \/ pos + b[pos] > Len(b) THEN DecodeFail
    ELSE LET bytes == SubSeq(b, pos + 1, pos + b[pos]) IN
         IF \E s \in Strings : Utf8(s) = bytes
         THEN [ok |-> TRUE, v |-> CHOOSE s \in Strings : Utf8(s) = bytes,
               next |-> pos + 1 + b[pos]]
         ELSE DecodeFail

DecodeVec(b, pos) ==
    IF pos > Len(b) \/ pos + b[pos] > Len(b) THEN DecodeFail
    ELSE [ok |-> TRUE, v |-> SubSeq(b, pos + 1, pos + b[pos]), next |-> pos + 1 + b[pos]]

RECURSIVE EncodeDBType(_)
RECURSIVE EncodeMessageType(_)
\* Column { column_name, column_type, dependencies }
EncodeColumn(c) ==
    EncodeString(c.column_name) \o EncodeDBType(c.column_type) \o EncodeVec(c.dependencies)

\* MessageType { name, columns }
EncodeMessageType(mt) ==
    EncodeString(mt.name) \o <<Len(mt.columns)>>
        \o Concat([i \in 1..Len(mt.columns) |-> EncodeColumn(mt.columns[i])])

\* DBType: the variant index, and for MessageType(..) the type after it (the
\* model's catalogs hold no enum column)
EncodeDBType(t) ==
    IF t.tag = "Message" THEN <<TagOf("Message")>> \o EncodeMessageType(t)
    ELSE <<TagOf(t.tag)>>

RECURSIVE DecodeDBType(_, _)
RECURSIVE DecodeColumns(_, _, _, _)
RECURSIVE DecodeMessageType(_, _)
DecodeMessageType(b, pos) ==
    LET name == DecodeString(b, pos) IN
    IF ~name.ok THEN DecodeFail
    ELSE IF name.next > Len(b) THEN DecodeFail
    ELSE LET cols == DecodeColumns(b, name.next + 1, b[name.next], <<>>) IN
         IF ~cols.ok THEN DecodeFail
         ELSE [ok |-> TRUE, v |-> TMessage(name.v, cols.v), next |-> cols.next]

DecodeDBType(b, pos) ==
    IF pos > Len(b) THEN DecodeFail
    ELSE CASE b[pos] = TagOf("Bool") -> [ok |-> TRUE, v |-> TPrim("Bool"), next |-> pos + 1]
           [] b[pos] = TagOf("Double") -> [ok |-> TRUE, v |-> TPrim("Double"), next |-> pos + 1]
           [] b[pos] = TagOf("Int") -> [ok |-> TRUE, v |-> TPrim("Int"), next |-> pos + 1]
           [] b[pos] = TagOf("UInt") -> [ok |-> TRUE, v |-> TPrim("UInt"), next |-> pos + 1]
           [] b[pos] = TagOf("String") -> [ok |-> TRUE, v |-> TPrim("String"), next |-> pos + 1]
           [] b[pos] = TagOf("Message") -> DecodeMessageType(b, pos + 1)
           [] OTHER -> DecodeFail

DecodeColumns(b, pos, n, acc) ==
    IF n = 0 THEN [ok |-> TRUE, v |-> acc, next |-> pos]
    ELSE LET name == DecodeString(b, pos) IN
         IF ~name.ok THEN DecodeFail
         ELSE LET type == DecodeDBType(b, name.next) IN
              IF ~type.ok THEN DecodeFail
              ELSE LET deps == DecodeVec(b, type.next) IN
                   IF ~deps.ok THEN DecodeFail
                   ELSE DecodeColumns(b, deps.next, n - 1,
                            Append(acc, [column_name |-> name.v, column_type |-> type.v,
                                         dependencies |-> deps.v]))

\* ObjectStorage { schema, pages, overflow_pages }
EncodeObjectStorage(os) ==
    EncodeMessageType(os.schema) \o EncodeVec(os.pages) \o EncodeVec(os.overflow_pages)

DecodeObjectStorage(b, pos) ==
    LET schema == DecodeMessageType(b, pos) IN
    IF ~schema.ok THEN DecodeFail
    ELSE LET pages == DecodeVec(b, schema.next) IN
         IF ~pages.ok THEN DecodeFail
         ELSE LET overflow == DecodeVec(b, pages.next) IN
              IF ~overflow.ok THEN DecodeFail
              ELSE [ok |-> TRUE,
                    v |-> [schema |-> schema.v, pages |-> pages.v,
                           overflow_pages |-> overflow.v],
                    next |-> overflow.next]

RECURSIVE EncodeEntries(_, _)
\* the entries of the HashMap, in whatever order it iterates
EncodeEntries(state, names) ==
    IF names = {} THEN <<>>
    ELSE LET n == CHOOSE x \in names : TRUE IN
         EncodeString(n) \o EncodeObjectStorage(state[n])
             \o EncodeEntries(state, names \ {n})

\* TableManagerState { tables: HashMap<String, ObjectStorage> }
EncodeCatalog(state) == <<Cardinality(DOMAIN state)>> \o EncodeEntries(state, DOMAIN state)

RECURSIVE DecodeEntries(_, _, _, _)
DecodeEntries(b, pos, n, acc) ==
    IF n = 0 THEN [ok |-> TRUE, tables |-> acc]
    ELSE LET name == DecodeString(b, pos) IN
         IF ~name.ok THEN DecodeFail
         ELSE LET os == DecodeObjectStorage(b, name.next) IN
              IF ~os.ok THEN DecodeFail
              ELSE DecodeEntries(b, os.next, n - 1,
                       [k \in DOMAIN acc \cup {name.v} |->
                           IF k = name.v THEN os.v ELSE acc[k]])

DecodeCatalog(b) ==
    IF Len(b) < 1 THEN DecodeFail
    ELSE DecodeEntries(b, 2, b[1], [k \in {} |-> 0])

\* Vec<(String, DBType)>
EncodeNamed(ps) ==
    <<Len(ps)>> \o Concat([i \in 1..Len(ps) |->
                             EncodeString(ps[i][1]) \o EncodeDBType(ps[i][2])])

\* EnumVariantType { name, content }
EncodeEnumVariantType(v) == EncodeString(v.name) \o EncodeNamed(v.content)

\* EnumType { name, dependencies, variants }
EncodeEnumType(et) ==
    EncodeString(et.name) \o EncodeNamed(et.dependencies) \o <<Len(et.variants)>>
        \o Concat([i \in 1..Len(et.variants) |-> EncodeEnumVariantType(et.variants[i])])

\* the one element of a singleton set
The(S) == CHOOSE x \in S : TRUE

RECURSIVE DecodeNamed(_, _, _, _)
DecodeNamed(b, pos, n, acc) ==
    IF n = 0 THEN [ok |-> TRUE, v |-> acc, next |-> pos]
    ELSE LET name == DecodeString(b, pos) IN
         IF ~name.ok THEN DecodeFail
         ELSE The({IF ~type.ok THEN DecodeFail
                   ELSE DecodeNamed(b, type.next, n - 1, Append(acc, <<name.v, type.v>>))
                   : type \in {DecodeDBType(b, name.next)}})

RECURSIVE DecodeVariants(_, _, _, _)
DecodeVariants(b, pos, n, acc) ==
    IF n = 0 THEN [ok |-> TRUE, v |-> acc, next |-> pos]
    ELSE LET name == DecodeString(b, pos) IN
         IF ~name.ok \/ name.next > Len(b) THEN DecodeFail
         ELSE The({IF ~content.ok THEN DecodeFail
                   ELSE DecodeVariants(b, content.next, n - 1,
                            Append(acc, [name |-> name.v, content |-> content.v]))
                   : content \in {DecodeNamed(b, name.next + 1, b[name.next], <<>>)}})

DecodeEnumType(b, pos) ==
    LET name == DecodeString(b, pos) IN
    IF ~name.ok \/ name.next > Len(b) THEN DecodeFail
    ELSE The({IF ~deps.ok \/ deps.next > Len(b) THEN DecodeFail
              ELSE The({IF ~variants.ok THEN DecodeFail
                        ELSE [ok |-> TRUE,
                              v |-> [name |-> name.v, dependencies |-> deps.v,
                                     variants |-> variants.v],
                              next |-> variants.next]
                        : variants \in {DecodeVariants(b, deps.next + 1, b[deps.next],
                                                       <<>>)}})
              : deps \in {DecodeNamed(b, name.next + 1, b[name.next], <<>>)}})

RECURSIVE EncodeTypes(_, _, _)
\* the entries of a HashMap<String, MessageType> (enum = FALSE) or of a
\* HashMap<String, EnumType> (enum = TRUE), in whatever order it iterates
EncodeTypes(types, names, enum) ==
    IF names = {} THEN <<>>
    ELSE LET n == CHOOSE x \in names : TRUE IN
         EncodeString(n)
             \o (IF enum THEN EncodeEnumType(types[n]) ELSE EncodeMessageType(types[n]))
             \o EncodeTypes(types, names \ {n}, enum)

\* QueryPlannerState { message_types, enum_types }
EncodePlannerState(state) ==
    <<Cardinality(DOMAIN state.message_types)>>
        \o EncodeTypes(state.message_types, DOMAIN state.message_types, FALSE)
        \o <<Cardinality(DOMAIN state.enum_types)>>
        \o EncodeTypes(state.enum_types, DOMAIN state.enum_types, TRUE)

RECURSIVE DecodeTypes(_, _, _, _, _)
DecodeTypes(b, pos, n, acc, enum) ==
    IF n = 0 THEN [ok |-> TRUE, v |-> acc, next |-> pos]
    ELSE LET name == DecodeString(b, pos) IN
         IF ~name.ok THEN DecodeFail
         ELSE The({IF ~type.ok THEN DecodeFail
                   ELSE DecodeTypes(b, type.next, n - 1,
                            [k \in DOMAIN acc \cup {name.v} |->
                                IF k = name.v THEN type.v ELSE acc[k]], enum)
                   : type \in {IF enum THEN DecodeEnumType(b, name.next)
                               ELSE DecodeMessageType(b, name.next)}})

DecodePlannerState(b) ==
    IF Len(b) < 1 THEN DecodeFail
    ELSE The({IF ~messages.ok \/ messages.next > Len(b) THEN DecodeFail
              ELSE The({IF ~enums.ok THEN DecodeFail
                        ELSE [ok |-> TRUE,
                              v |-> [message_types |-> messages.v,
                                     enum_types |-> enums.v]]
                        : enums \in {DecodeTypes(b, messages.next + 1, b[messages.next],
                                                 [k \in {} |-> 0], TRUE)}})
              : messages \in {DecodeTypes(b, 2, b[1], [k \in {} |-> 0], FALSE)}})

(***************************************************************************)
(* The machine: m = [disk, cache, st].                                     *)
(*   disk   the blob store: id -> bytes, defined on the ids that hold a    *)
(*          value                                                          *)
(*   cache  BufferPool::pages: id -> [page, dirty]                         *)
(*   st     Storage::state: [page_size, next_page_id, free_ids]            *)
(***************************************************************************)
Put(d, id, value) == [k \in DOMAIN d \cup {id} |-> IF k = id THEN value ELSE d[k]]
Del(d, id) == [k \in DOMAIN d \ {id} |-> d[k]]

NoPage == [id |-> 0, page_type |-> 0, obj_count |-> 0, data |-> <<>>]

\* ---- storage.rs ----
save_state(m) == [m EXCEPT !.disk = Put(m.disk, STATE_INDEX, EncodeState(m.st))]

\* Storage::new that loads the state and then takes the argument's page_size
Storage_new_argument_wins(d, page_size) ==
    IF STATE_INDEX \in DOMAIN d
    THEN [disk |-> d, st |-> [DecodeState(d[STATE_INDEX]) EXCEPT !.page_size = page_size]]
    ELSE LET state == [page_size |-> page_size, next_page_id |-> DEFAULT_PAGE,
                       free_ids |-> <<>>]
         IN [disk |-> Put(d, STATE_INDEX, EncodeState(state)), st |-> state]

\* Storage::new: the state on disk wins over the constructor argument
Storage_new(d, page_size) ==
    IF STATE_INDEX \in DOMAIN d
    THEN [disk |-> d, st |-> DecodeState(d[STATE_INDEX])]
    ELSE LET state == [page_size |-> page_size, next_page_id |-> DEFAULT_PAGE,
                       free_ids |-> <<>>]
         IN [disk |-> Put(d, STATE_INDEX, EncodeState(state)), st |-> state]

\* allocate_id that returns the front of the free list and leaves it there
allocate_id_keep(m) ==
    IF m.st.free_ids # <<>>
    THEN [m |-> save_state(m), id |-> Head(m.st.free_ids)]
    ELSE [m |-> save_state([m EXCEPT !.st.next_page_id = @ + 1]),
          id |-> m.st.next_page_id]

allocate_id(m) ==
    IF m.st.free_ids # <<>>
    THEN [m |-> save_state([m EXCEPT !.st.free_ids = Tail(@)]),
          id |-> Head(m.st.free_ids)]
    ELSE [m |-> save_state([m EXCEPT !.st.next_page_id = @ + 1]),
          id |-> m.st.next_page_id]

\* free_id that pushes the id at the front of the list
free_id_front(m, id) ==
    save_state([m EXCEPT !.disk = Del(@, id), !.st.free_ids = <<id>> \o @])

free_id(m, id) ==
    save_state([m EXCEPT !.disk = Del(@, id), !.st.free_ids = Append(@, id)])

write_page(m, page) == [m EXCEPT !.disk = Put(@, page.id, EncodePage(page))]

\* allocate_page that takes its id from allocate_id
Storage_allocate_page_reuse(m, page_type) ==
    LET a == allocate_id(m)
        page == [id |-> a.id, page_type |-> page_type, obj_count |-> 0, data |-> <<>>]
    IN [m |-> write_page(a.m, page), page |-> page]

Storage_allocate_page(m, page_type) ==
    LET page == [id |-> m.st.next_page_id, page_type |-> page_type,
                 obj_count |-> 0, data |-> <<>>]
    IN [m |-> write_page(save_state([m EXCEPT !.st.next_page_id = @ + 1]), page),
        page |-> page]

read_page(m, id) ==
    IF id \notin DOMAIN m.disk THEN [err |-> "PageNotFound", page |-> NoPage]
    ELSE LET d == DecodePage(m.disk[id]) IN
         IF d.ok THEN [err |-> "ok", page |-> d.page]
         ELSE [err |-> "DecodeError", page |-> NoPage]

Storage_delete_page(m, id) ==
    save_state([m EXCEPT !.disk = Del(@, id), !.st.free_ids = Append(@, id)])

\* ---- buffer_pool.rs ----
Uncache(m, id) == [m EXCEPT !.cache = [k \in DOMAIN @ \ {id} |-> @[k]]]
Encache(m, id, page, dirty) ==
    [m EXCEPT !.cache = [k \in DOMAIN @ \cup {id} |->
                            IF k = id THEN [page |-> page, dirty |-> dirty]
                            ELSE @[k]]]

\* pop_page that drops whichever entry comes first, written back or not
pop_page_drop(m) ==
    IF DOMAIN m.cache # {} THEN {Uncache(m, id) : id \in DOMAIN m.cache} ELSE {m}

\* The HashMap's iteration order is arbitrary: any clean entry may be the
\* first one found, and any entry may be the first when all are dirty.
pop_page(m) ==
    LET clean == {id \in DOMAIN m.cache : ~m.cache[id].dirty} IN
    IF clean # {} THEN {Uncache(m, id) : id \in clean}
    ELSE IF DOMAIN m.cache # {}
         THEN {write_page(Uncache(m, id), m.cache[id].page) : id \in DOMAIN m.cache}
         ELSE {m}

\* allocate_page that evicts only once the cache holds more than capacity
BufferPool_allocate_page_late(m, page_type) ==
    LET a == Storage_allocate_page(m, page_type)
        popped == IF Cardinality(DOMAIN a.m.cache) > Capacity
                  THEN pop_page(a.m) ELSE {a.m}
    IN {[m |-> Encache(p, a.page.id, a.page, FALSE), id |-> a.page.id] : p \in popped}

\* delete_page that leaves the cache entry in place
BufferPool_delete_page_cached(m, id) == Storage_delete_page(m, id)

\* the outcomes [m, id] of BufferPool::allocate_page
BufferPool_allocate_page(m, page_type) ==
    LET a == Storage_allocate_page(m, page_type)
        popped == IF Cardinality(DOMAIN a.m.cache) >= Capacity
                  THEN pop_page(a.m) ELSE {a.m}
    IN {[m |-> Encache(p, a.page.id, a.page, FALSE), id |-> a.page.id] : p \in popped}

BufferPool_delete_page(m, id) == Storage_delete_page(Uncache(m, id), id)

\* the outcomes [m, err] of BufferPool::bump_page
bump_page(m, id) ==
    IF id \in DOMAIN m.cache THEN {[m |-> m, err |-> "ok"]}
    ELSE LET r == read_page(m, id) IN
         IF r.err # "ok" THEN {[m |-> m, err |-> r.err]}
         ELSE LET popped == IF Cardinality(DOMAIN m.cache) >= Capacity
                            THEN pop_page(m) ELSE {m}
              IN {[m |-> Encache(p, id, r.page, FALSE), err |-> "ok"] : p \in popped}

\* get_page and get_page_mut both bump the page and hand out the cache entry
get_page(m, id) == bump_page(m, id)
get_page_mut(m, id) == bump_page(m, id)

RECURSIVE WriteAll(_, _)
WriteAll(m, ids) ==
    IF ids = {} THEN m
    ELSE LET id == CHOOSE x \in ids : TRUE
         IN WriteAll(write_page(m, m.cache[id].page), ids \ {id})

\* a flush that writes the dirty pages and leaves their dirty bits set
flush_keep_dirty(m) == WriteAll(m, {id \in DOMAIN m.cache : m.cache[id].dirty})

\* a flush that clears the dirty bits and writes nothing
flush_nowrite(m) ==
    [m EXCEPT !.cache = [k \in DOMAIN @ |-> [@[k] EXCEPT !.dirty = FALSE]]]

flush(m) ==
    LET dirty == {id \in DOMAIN m.cache : m.cache[id].dirty}
        w == WriteAll(m, dirty)
    IN [w EXCEPT !.cache = [k \in DOMAIN @ |-> [@[k] EXCEPT !.dirty = FALSE]]]

\* ---- paged_storage.rs ----
\* data[offset..offset + len) of a Vec<u8> (positions count from 0)
Slice(data, offset, len) == [i \in 1..len |-> data[offset + i]]

\* Vec::resize(len, 0): truncate, or pad with zero bytes
Resize(data, len) == [i \in 1..len |-> IF i <= Len(data) THEN data[i] ELSE 0]

\* the outcomes [m, err, ret] of PagedStorage::read_data; ret is the copy
read_data(m, page_id, offset, len) ==
    {IF g.err # "ok" THEN [m |-> g.m, err |-> g.err, ret |-> <<>>]
     ELSE LET page == g.m.cache[page_id].page IN
          IF offset + len > Len(page.data)
          THEN [m |-> g.m, err |-> "InvalidOperation", ret |-> <<>>]
          ELSE [m |-> g.m, err |-> "ok", ret |-> Slice(page.data, offset, len)]
     : g \in get_page(m, page_id)}

\* the outcomes [m, err, ret] of PagedStorage::get_obj_count
get_obj_count(m, page_id) ==
    {IF g.err # "ok" THEN [m |-> g.m, err |-> g.err, ret |-> 0]
     ELSE [m |-> g.m, err |-> "ok", ret |-> g.m.cache[page_id].page.obj_count]
     : g \in get_page(m, page_id)}

\* append_data without the check against page_size
append_data_unchecked(m, page_id, data) ==
    {IF g.err # "ok" THEN [m |-> g.m, err |-> g.err, ret |-> 0]
     ELSE LET page == g.m.cache[page_id].page
          IN [m |-> Encache(g.m, page_id, [page EXCEPT !.data = @ \o data], TRUE),
              err |-> "ok", ret |-> Len(page.data) + Len(data)]
     : g \in get_page_mut(m, page_id)}

\* the outcomes [m, err, ret] of PagedStorage::append_data; ret is data_end
append_data(m, page_id, data) ==
    {IF g.err # "ok" THEN [m |-> g.m, err |-> g.err, ret |-> 0]
     ELSE LET page == g.m.cache[page_id].page
              data_end == Len(page.data) + Len(data)
          IN IF data_end > g.m.st.page_size
             THEN [m |-> g.m, err |-> "PageFull", ret |-> 0]
             ELSE [m |-> Encache(g.m, page_id, [page EXCEPT !.data = @ \o data], TRUE),
                   err |-> "ok", ret |-> data_end]
     : g \in get_page_mut(m, page_id)}

\* write_data that puts the bytes at the tail when offset lies past it
write_data_at_tail(m, page_id, offset, data) ==
    {IF g.err # "ok" THEN g
     ELSE LET page == g.m.cache[page_id].page
              at == IF offset > Len(page.data) THEN Len(page.data) ELSE offset
              data_end == at + Len(data)
              copied == [i \in 1..(IF data_end > Len(page.data) THEN data_end
                                   ELSE Len(page.data)) |->
                           IF i > at /\ i <= data_end THEN data[i - at]
                           ELSE page.data[i]]
          IN IF offset + Len(data) > g.m.st.page_size
             THEN [m |-> g.m, err |-> "PageFull"]
             ELSE [m |-> Encache(g.m, page_id, [page EXCEPT !.data = copied], TRUE),
                   err |-> "ok"]
     : g \in get_page_mut(m, page_id)}

\* the outcomes [m, err] of PagedStorage::write_data
write_data(m, page_id, offset, data) ==
    {IF g.err # "ok" THEN g
     ELSE LET page == g.m.cache[page_id].page
              data_end == offset + Len(data)
              grown == IF data_end > Len(page.data) THEN Resize(page.data, data_end)
                       ELSE page.data
              copied == [i \in DOMAIN grown |->
                           IF i > offset /\ i <= data_end THEN data[i - offset]
                           ELSE grown[i]]
          IN IF data_end > g.m.st.page_size THEN [m |-> g.m, err |-> "PageFull"]
             ELSE [m |-> Encache(g.m, page_id, [page EXCEPT !.data = copied], TRUE),
                   err |-> "ok"]
     : g \in get_page_mut(m, page_id)}

\* cut_data that cuts nothing
cut_data_keep(m, page_id, len) ==
    {[m |-> g.m, err |-> g.err] : g \in get_page_mut(m, page_id)}

\* the outcomes [m, err] of PagedStorage::cut_data
cut_data(m, page_id, len) ==
    {IF g.err # "ok" THEN g
     ELSE LET page == g.m.cache[page_id].page IN
          IF len >= Len(page.data) THEN [m |-> g.m, err |-> "ok"]
          ELSE [m |-> Encache(g.m, page_id, [page EXCEPT !.data = Resize(@, len)], TRUE),
                err |-> "ok"]
     : g \in get_page_mut(m, page_id)}

set_obj_count(m, page_id, obj_count) ==
    {IF g.err # "ok" THEN g
     ELSE LET e == g.m.cache[page_id]
          IN [m |-> Encache(g.m, page_id, [e.page EXCEPT !.obj_count = obj_count], e.dirty),
              err |-> "ok"]
     : g \in get_page_mut(m, page_id)}

\* PagedStorage::bump_obj_count: the page's object count goes up by one; the
\* call may or may not mark the page dirty
bump_obj_count(m, page_id) ==
    UNION {IF g.err # "ok" THEN {g}
           ELSE LET e == g.m.cache[page_id]
                IN {[m |-> Encache(g.m, page_id, [e.page EXCEPT !.obj_count = @ + 1], d),
                     err |-> "ok"] : d \in {e.dirty, TRUE}}
           : g \in get_page_mut(m, page_id)}

(***************************************************************************)
(* object_storage.rs.  An ObjectStorage is os = [schema, pages,            *)
(* overflow_pages].                                                        *)
(***************************************************************************)
\* an ObjectStorage that starts on the first page id instead of on no page
ObjectStorage_new_stale(schema) ==
    [schema |-> schema, pages |-> <<DEFAULT_PAGE>>, overflow_pages |-> <<>>]

ObjectStorage_new(schema) == [schema |-> schema, pages |-> <<>>, overflow_pages |-> <<>>]

NoMessage == Message(<<>>)

\* wrap_and_encode with the comparison strict: a row of exactly page_size
\* bytes goes to an overflow blob
wrap_and_encode_strict(os, m, message) ==
    LET encoded == EncodeReal(message) IN
    IF Len(encoded) < m.st.page_size
    THEN [os |-> os, m |-> m, encoded |-> encoded]
    ELSE LET a == allocate_id(m) IN
         [os |-> [os EXCEPT !.overflow_pages = Append(@, a.id)],
          m |-> [a.m EXCEPT !.disk = Put(@, a.id, encoded)],
          encoded |-> EncodeIndex(a.id)]

\* [os, m, encoded]
wrap_and_encode(os, m, message) ==
    LET encoded == EncodeReal(message) IN
    IF Len(encoded) <= m.st.page_size
    THEN [os |-> os, m |-> m, encoded |-> encoded]
    ELSE LET a == allocate_id(m) IN
         [os |-> [os EXCEPT !.overflow_pages = Append(@, a.id)],
          m |-> [a.m EXCEPT !.disk = Put(@, a.id, encoded)],
          encoded |-> EncodeIndex(a.id)]

\* [res, message, read]; res is "ok", "DecodeError" or "panic"
decode_and_unwrap(m, encoded) ==
    LET w == DecodeWrapped(encoded) IN
    IF ~w.ok THEN [res |-> "DecodeError", message |-> NoMessage, read |-> 0]
    ELSE IF w.kind = "Real" THEN [res |-> "ok", message |-> w.message, read |-> w.read]
    ELSE IF w.id \notin DOMAIN m.disk
         THEN [res |-> "panic", message |-> NoMessage, read |-> 0]
         ELSE LET decoded == DecodeWrapped(m.disk[w.id]) IN
              IF ~decoded.ok
              THEN [res |-> "DecodeError", message |-> NoMessage, read |-> 0]
              ELSE IF decoded.kind = "Index"
                   THEN [res |-> "panic", message |-> NoMessage, read |-> 0]
                   ELSE [res |-> "ok", message |-> decoded.message, read |-> w.read]

\* the outcomes [os, m] of add_page
add_page(os, m) ==
    {[os |-> [os EXCEPT !.pages = Append(@, a.id)], m |-> a.m]
     : a \in BufferPool_allocate_page(m, TableData)}

\* the outcomes [m, err] of try_push
try_push(os, m, encoded) == append_data(m, os.pages[Len(os.pages)], encoded)

\* the schema check at the head of the loop body, and the check left out
check_message_skipped(os, message) == TRUE
check_message(os, message) == match_message(os.schema, message)

\* one round of the loop that hands the failure of try_push to the caller
insert_message_no_retry(os, m, message) ==
    IF ~check_message(os, message)
    THEN {[os |-> os, m |-> m, res |-> "MessageTypeMismatch"]}
    ELSE LET w == wrap_and_encode(os, m, message) IN
         UNION {
           IF t.err = "ok"
           THEN {[os |-> w.os, m |-> b.m, res |-> b.err]
                 : b \in bump_obj_count(t.m, w.os.pages[Len(w.os.pages)])}
           ELSE {[os |-> w.os, m |-> t.m, res |-> t.err]}
           : t \in try_push(w.os, w.m, w.encoded)}

\* the outcomes [os, m, res] of one round of the loop of insert_messages
insert_message(os, m, message) ==
    IF ~check_message(os, message)
    THEN {[os |-> os, m |-> m, res |-> "MessageTypeMismatch"]}
    ELSE LET w == wrap_and_encode(os, m, message)
             Bump(o, mm) == {[os |-> o, m |-> b.m, res |-> b.err]
                             : b \in bump_obj_count(mm, o.pages[Len(o.pages)])}
         IN UNION {
              IF t.err = "ok" THEN Bump(w.os, t.m)
              ELSE UNION {
                     UNION {
                       IF t2.err = "ok" THEN Bump(a.os, t2.m)
                       ELSE {[os |-> a.os, m |-> t2.m, res |-> "panic"]}
                       : t2 \in try_push(a.os, a.m, w.encoded)}
                     : a \in add_page(w.os, t.m)}
              : t \in try_push(w.os, w.m, w.encoded)}

RECURSIVE insert_loop(_, _, _, _)
\* the outcomes [os, m, res, done]; done counts the rows taken
insert_loop(os, m, messages, done) ==
    IF messages = <<>> THEN {[os |-> os, m |-> m, res |-> "ok", done |-> done]}
    ELSE UNION {
           IF r.res = "ok" THEN insert_loop(r.os, r.m, Tail(messages), done + 1)
           ELSE {[os |-> r.os, m |-> r.m, res |-> r.res, done |-> done]}
           : r \in insert_message(os, m, Head(messages))}

ObjectStorage_insert_messages(os, m, messages) ==
    IF Len(os.pages) = 0
    THEN UNION {insert_loop(a.os, a.m, messages, 0) : a \in add_page(os, m)}
    ELSE insert_loop(os, m, messages, 0)

RECURSIVE delete_pages(_, _)
delete_pages(m, pages) ==
    IF pages = <<>> THEN m
    ELSE delete_pages(BufferPool_delete_page(m, Head(pages)), Tail(pages))

RECURSIVE free_ids(_, _)
free_ids(m, pages) ==
    IF pages = <<>> THEN m
    ELSE free_ids(free_id(m, Head(pages)), Tail(pages))

\* drop_items without the loop over overflow_pages
drop_items_pages_only(os, m) ==
    [os |-> [os EXCEPT !.pages = <<>>, !.overflow_pages = <<>>],
     m |-> delete_pages(m, os.pages)]

\* [os, m]
drop_items(os, m) ==
    [os |-> [os EXCEPT !.pages = <<>>, !.overflow_pages = <<>>],
     m |-> free_ids(delete_pages(m, os.pages), os.overflow_pages)]

\* MessageIterator: it = [page_index, page_offset, page_obj_count]
ObjectStorage_iter == [page_index |-> 0, page_offset |-> 0, page_obj_count |-> 0]

\* the outcomes [m, it, res, message] of MessageIterator::next; res is "some",
\* "none" or "panic" (an unwrap of an error, or a slice out of range)
MessageIterator_next(os, m, it) ==
    IF it.page_index >= Len(os.pages)
    THEN {[m |-> m, it |-> it, res |-> "none", message |-> NoMessage]}
    ELSE LET page_id == os.pages[it.page_index + 1] IN
         {IF g.err # "ok"
          THEN [m |-> g.m, it |-> it, res |-> "panic", message |-> NoMessage]
          ELSE LET page == g.m.cache[page_id].page IN
               IF it.page_offset > Len(page.data)
               THEN [m |-> g.m, it |-> it, res |-> "panic", message |-> NoMessage]
               ELSE LET encoded_segment ==
                            SubSeq(page.data, it.page_offset + 1, Len(page.data))
                        d == decode_and_unwrap(g.m, encoded_segment)
                    IN IF d.res # "ok"
                       THEN [m |-> g.m, it |-> it, res |-> "panic",
                             message |-> NoMessage]
                       ELSE [m |-> g.m,
                             it |-> IF it.page_obj_count + 1 = page.obj_count
                                    THEN [page_index |-> it.page_index + 1,
                                          page_offset |-> 0, page_obj_count |-> 0]
                                    ELSE [page_index |-> it.page_index,
                                          page_offset |-> it.page_offset + d.read,
                                          page_obj_count |-> it.page_obj_count + 1],
                             res |-> "some", message |-> d.message]
          : g \in get_page(m, page_id)}

RECURSIVE collect(_, _, _, _)
\* the outcomes [m, res, out] of draining the iterator (Iterator::collect)
collect(os, m, it, acc) ==
    UNION {
      IF n.res = "some" THEN collect(os, n.m, n.it, Append(acc, n.message))
      ELSE {[m |-> n.m,
             res |-> IF n.res = "none" THEN "ok" ELSE "panic",
             out |-> acc]}
      : n \in MessageIterator_next(os, m, it)}

(***************************************************************************)
(* The inputs: table names, two schemas, rows that match Text and a row     *)
(* that matches neither.  The long strings sit on both sides of the  *)
(* page size once wrapped (5 bytes of framing).                            *)
(***************************************************************************)
\* the names given to create_table, and a name no table is ever given
Names == {"A"}
Strangers == {"B"}

Pair == TMessage("Pair", <<Column(TPrim("UInt")), Column(TPrim("Bool"))>>)
Text == TMessage("Text", <<Column(TPrim("String"))>>)
Schemas == {Pair, Text}

Str(n) == [i \in 1..n |-> 97]

\* mWrong matches neither schema: its second field is an Int where Pair has a
\* Bool, and it has two fields where Text has one
mWrong == Message(<<VUInt(5), VInt(-7)>>)
sSmall == Message(<<VString(Str(1))>>)
sFull == Message(<<VString(Str(PageSize - 5))>>)
sOver == Message(<<VString(Str(PageSize - 4))>>)
Messages == {mWrong, sSmall, sFull, sOver}

Named(name, t, deps) == [column_name |-> name, column_type |-> t, dependencies |-> deps]

\* the schema of deduce_expression_test and plan_conversion_test, and rows
\* written for it
Something ==
    TMessage("A", <<Named("A", TPrim("UInt"), <<>>), Named("B", TPrim("Bool"), <<>>),
                    Named("c", TPrim("String"), <<>>)>>)
SomethingRows ==
    {Message(<<VUInt(0), VBool(TRUE), VString(<<>>)>>),
     Message(<<VUInt(5), VBool(FALSE), VString(Str(1))>>)}

\* the rows written for each schema
RowsOf(schema) ==
    IF schema = Text THEN {sSmall, sFull, sOver}
    ELSE IF schema = Something THEN SomethingRows
    ELSE {}

Batches == UNION {[1..n -> Messages] : n \in 0..MaxBatch}

\* the rows of a batch before its first row not written for the schema
RECURSIVE ValidPrefix(_, _)
ValidPrefix(schema, messages) ==
    IF messages = <<>> \/ Head(messages) \notin RowsOf(schema) THEN <<>>
    ELSE <<Head(messages)>> \o ValidPrefix(schema, Tail(messages))

(***************************************************************************)
(* table_manager.rs                                                        *)
(***************************************************************************)
M == [disk |-> disk, cache |-> cache, st |-> st]

SetM(m) == disk' = m.disk /\ cache' = m.cache /\ st' = m.st

Empty == [k \in {} |-> 0]

NoSchema == TMessage("", <<>>)
NoOs == [schema |-> NoSchema, pages |-> <<>>, overflow_pages |-> <<>>]
NoPrev == [op |-> "", name |-> "", res |-> "", out |-> <<>>, recreated |-> FALSE]

\* the record of a call: out is the rows an iteration yielded (for drop_table
\* the rows the table had been given, for a create_table that follows the
\* drop of the same name and schema those same rows); before/after are the
\* dropped ObjectStorage around drop_items (after is also the ObjectStorage
\* create_table was asked to register); bad tells a batch with a row not
\* written for the schema (for free_id and delete_page: an id the caller
\* does not hold); id is the page id a Storage call was given or returned
\* (for a reopen: the page_size argument); prev is the call that preceded an iteration or an allocate_id
Call(op, name, res) ==
    [op |-> op, name |-> name, res |-> res, id |-> 0, out |-> <<>>, bad |-> FALSE,
     recreated |-> FALSE, before |-> NoOs, after |-> NoOs, prev |-> NoPrev,
     arg |-> 0, ret |-> 0]

Brief(c) == [op |-> c.op, name |-> c.name, res |-> c.res,
             out |-> IF c.op = "create_table" THEN c.out ELSE <<>>,
             recreated |-> c.recreated]

\* save(marble, &self.state, TABLE_STATE_INDEX) followed by flush()
save_and_flush(m, state) ==
    flush([m EXCEPT !.disk = Put(@, TABLE_STATE_INDEX, EncodeCatalog(state))])

\* TableManager::new
TableManager_new(d) ==
    IF TABLE_STATE_INDEX \in DOMAIN d THEN DecodeCatalog(d[TABLE_STATE_INDEX]).tables
    ELSE Empty

\* ---- planner_layer/query_planner.rs ----
\* QueryPlannerState::default()
NoTypes == [message_types |-> Empty, enum_types |-> Empty]

\* [err, state] of QueryPlanner::new over the blob store d
QueryPlanner_new(d) ==
    IF PLANNER_STATE_INDEX \in DOMAIN d
    THEN LET r == DecodePlannerState(d[PLANNER_STATE_INDEX]) IN
         IF r.ok THEN [err |-> "ok", state |-> r.v]
         ELSE [err |-> "DecodeError", state |-> NoTypes]
    ELSE [err |-> "ok", state |-> NoTypes]

\* save(marble, &self.state, PLANNER_STATE_INDEX)
save_planner(m, state) ==
    [m EXCEPT !.disk = Put(@, PLANNER_STATE_INDEX, EncodePlannerState(state))]

\* add_message_type that inserts and does not save
add_message_type_unsaved(m, state, type_name, message_type) ==
    IF type_name \in DOMAIN state.message_types
    THEN [m |-> m, state |-> state, res |-> "DuplicateMessageType"]
    ELSE [m |-> m,
          state |-> [state EXCEPT !.message_types = Put(@, type_name, message_type)],
          res |-> "ok"]

\* [m, state, res] of add_message_type
add_message_type(m, state, type_name, message_type) ==
    IF type_name \in DOMAIN state.message_types
    THEN [m |-> m, state |-> state, res |-> "DuplicateMessageType"]
    ELSE LET added == [state EXCEPT !.message_types = Put(@, type_name, message_type)]
         IN [m |-> save_planner(m, added), state |-> added, res |-> "ok"]

\* [m, state, res] of add_enum_type
add_enum_type(m, state, type_name, enum_type) ==
    IF type_name \in DOMAIN state.enum_types
    THEN [m |-> m, state |-> state, res |-> "DuplicateEnumType"]
    ELSE LET added == [state EXCEPT !.enum_types = Put(@, type_name, enum_type)]
         IN [m |-> save_planner(m, added), state |-> added, res |-> "ok"]

\* history: what was written to a table becomes durable with the next save
Saved(r) ==
    [n \in DOMAIN r |->
        IF r[n].status = "failedUnsaved" THEN [r[n] EXCEPT !.status = "failedSaved"]
        ELSE r[n]]

Running == last.res # "panic"

Init ==
    LET s == Storage_new(Empty, PageSize) IN
    /\ disk = s.disk
    /\ st = s.st
    /\ cache = Empty
    /\ tables = TableManager_new(s.disk)
    /\ rows = Empty
    /\ freed = <<>>
    /\ live = {}
    /\ shadow = Empty
    /\ planner = QueryPlanner_new(s.disk).state
    /\ last = Call("open", "", "ok")

\* create_table without the contains_key check
create_table_overwrite(table_name, schema) ==
    /\ Running
    /\ LET state == Put(tables, table_name, ObjectStorage_new(schema))
       IN /\ tables' = state
          /\ SetM(save_and_flush(M, state))
          /\ rows' = Put(Saved(rows), table_name, [seq |-> <<>>, status |-> "clean"])
          /\ last' = [Call("create_table", table_name, "ok") EXCEPT
                        !.after = [NoOs EXCEPT !.schema = schema]]

create_table(table_name, schema) ==
    /\ Running
    /\ IF table_name \in DOMAIN tables
       THEN /\ last' = [Call("create_table", table_name, "TableAlreadyExists") EXCEPT
                          !.after = [NoOs EXCEPT !.schema = schema]]
            /\ UNCHANGED <<disk, st, cache, tables, rows>>
       ELSE LET state == Put(tables, table_name, ObjectStorage_new(schema))
                again == /\ last.op = "drop_table" /\ last.res = "ok"
                         /\ last.name = table_name /\ last.before.schema = schema
            IN /\ tables' = state
               /\ SetM(save_and_flush(M, state))
               /\ rows' = Put(Saved(rows), table_name, [seq |-> <<>>, status |-> "clean"])
               /\ last' = [Call("create_table", table_name, "ok") EXCEPT
                             !.recreated = again,
                             !.after = [NoOs EXCEPT !.schema = schema],
                             !.out = IF again THEN last.out ELSE <<>>]

\* drop_table that saves the catalog and flushes before it looks the name up
drop_table_save_first(table_name) ==
    /\ Running
    /\ IF table_name \notin DOMAIN tables
       THEN /\ last' = Call("drop_table", table_name, "TableNotFound")
            /\ SetM(save_and_flush(M, tables))
            /\ UNCHANGED <<tables, rows>>
       ELSE LET d == drop_items(tables[table_name], M)
                state == Del(tables, table_name)
            IN /\ tables' = state
               /\ SetM(save_and_flush(d.m, state))
               /\ rows' = Del(Saved(rows), table_name)
               /\ last' = [Call("drop_table", table_name, "ok") EXCEPT
                             !.out = rows[table_name].seq,
                             !.before = tables[table_name],
                             !.after = d.os]

drop_table(table_name) ==
    /\ Running
    /\ IF table_name \notin DOMAIN tables
       THEN /\ last' = Call("drop_table", table_name, "TableNotFound")
            /\ UNCHANGED <<disk, st, cache, tables, rows>>
       ELSE LET d == drop_items(tables[table_name], M)
                state == Del(tables, table_name)
            IN /\ tables' = state
               /\ SetM(save_and_flush(d.m, state))
               /\ rows' = Del(Saved(rows), table_name)
               /\ last' = [Call("drop_table", table_name, "ok") EXCEPT
                             !.out = rows[table_name].seq,
                             !.before = tables[table_name],
                             !.after = d.os]

insert_messages(table_name, messages) ==
    /\ Running
    /\ IF table_name \notin DOMAIN tables
       THEN /\ last' = Call("insert_messages", table_name, "TableNotFound")
            /\ UNCHANGED <<disk, st, cache, tables, rows>>
       ELSE /\ Len(rows[table_name].seq) + Len(messages) <= MaxRows
            /\ \E o \in ObjectStorage_insert_messages(tables[table_name], M, messages) :
                 LET state == [tables EXCEPT ![table_name] = o.os]
                     given == ValidPrefix(tables[table_name].schema, messages)
                     r == [rows EXCEPT ![table_name].seq = @ \o given]
                 IN /\ o.m.st.next_page_id <= DEFAULT_PAGE + MaxIds
                    /\ tables' = state
                    /\ IF o.res = "ok"
                       THEN /\ SetM(save_and_flush(o.m, state))
                            /\ rows' = Saved(r)
                       ELSE /\ SetM(o.m)
                            /\ rows' = [r EXCEPT ![table_name].status =
                                          IF @ = "unknown" THEN @ ELSE "failedUnsaved"]
                    /\ last' = [Call("insert_messages", table_name, o.res) EXCEPT
                                  !.bad = Len(given) < Len(messages)]

iter(table_name) ==
    /\ Running
    /\ IF table_name \notin DOMAIN tables
       THEN /\ last' = [Call("iter", table_name, "TableNotFound") EXCEPT
                          !.prev = Brief(last)]
            /\ UNCHANGED <<disk, st, cache, tables, rows>>
       ELSE \E o \in collect(tables[table_name], M, ObjectStorage_iter, <<>>) :
              /\ SetM(o.m)
              /\ last' = [Call("iter", table_name, o.res) EXCEPT
                            !.out = o.out, !.prev = Brief(last)]
              /\ UNCHANGED <<tables, rows>>

\* The process ends (nothing flushes the buffer pool) and the directory is
\* opened again: PagedStorage::new, then TableManager::new.
ReopenWith(page_size) ==
    LET s == Storage_new(disk, page_size) IN
    /\ last.op # "reopen"
    /\ UNCHANGED <<freed, live, shadow>>
    /\ planner' = QueryPlanner_new(s.disk).state
    /\ disk' = s.disk
    /\ st' = s.st
    /\ cache' = Empty
    /\ tables' = TableManager_new(s.disk)
    /\ rows' = [n \in DOMAIN rows |->
                  IF rows[n].status = "failedUnsaved"
                  THEN [rows[n] EXCEPT !.status = "unknown"] ELSE rows[n]]
    /\ last' = [Call("reopen", "", "ok") EXCEPT !.id = page_size]

Reopen == ReopenWith(PageSize)

\* insert_messages never looks at the batch of a missing table: one empty and
\* one non-empty batch stand for all of them
BatchesFor(n) == IF n \in DOMAIN tables THEN Batches ELSE {<<>>, <<sSmall>>}

Next ==
    \/ \E n \in Names, s \in Schemas : create_table(n, s) /\ UNCHANGED <<freed, live, shadow, planner>>
    \/ \E n \in Names : drop_table(n) /\ UNCHANGED <<freed, live, shadow, planner>>
    \/ \E n \in Names : \E b \in BatchesFor(n) :
          insert_messages(n, b) /\ UNCHANGED <<freed, live, shadow, planner>>
    \/ \E n \in Names : iter(n) /\ UNCHANGED <<freed, live, shadow, planner>>
    \/ Reopen

Spec == Init /\ [][Next]_vars

(***************************************************************************)
(* The table manager called with names that were never created as well.    *)
(* Batches are of one row, or of one row and a mismatched one.             *)
(***************************************************************************)
ShortBatches == {b \in Batches : Len(b) <= 1} \cup {<<sSmall, mWrong>>}

NextCatalog ==
    \/ \E n \in Names, s \in Schemas : create_table(n, s) /\ UNCHANGED <<freed, live, shadow, planner>>
    \/ \E n \in Names \cup Strangers : drop_table(n) /\ UNCHANGED <<freed, live, shadow, planner>>
    \/ \E n \in Names \cup Strangers : \E b \in ShortBatches :
          insert_messages(n, b) /\ UNCHANGED <<freed, live, shadow, planner>>
    \/ \E n \in Names \cup Strangers : iter(n) /\ UNCHANGED <<freed, live, shadow, planner>>
    \/ Reopen

SpecCatalog == Init /\ [][NextCatalog]_vars

(***************************************************************************)
(* Storage on its own: a caller that allocates ids and pages and gives     *)
(* back ids it was handed, also ones it gave back before (Storage does     *)
(* not refuse them).  freed is the queue of the ids given back and not     *)
(* handed out again, in the order they were given back; last.out is that   *)
(* queue as it was before the call.                                        *)
(***************************************************************************)
\* the ids handed out so far
Allocated == DEFAULT_PAGE..(st.next_page_id - 1)

\* the page_size arguments of a reopen: the one of the first open, and another
PageSizes == {PageSize, 2 * PageSize}

CallAllocateId ==
    LET a == allocate_id(M) IN
    /\ a.m.st.next_page_id <= DEFAULT_PAGE + MaxIds
    /\ SetM(a.m)
    /\ freed' = IF freed # <<>> THEN Tail(freed) ELSE freed
    /\ live' = live \cup {a.id}
    /\ last' = [Call("allocate_id", "", "ok") EXCEPT
                  !.id = a.id, !.out = freed, !.prev = Brief(last)]
    /\ UNCHANGED <<tables, rows, shadow, planner>>

CallFreeId(id) ==
    /\ Len(st.free_ids) < MaxIds
    /\ SetM(free_id(M, id))
    /\ freed' = Append(freed, id)
    /\ live' = live \ {id}
    /\ last' = [Call("free_id", "", "ok") EXCEPT
                  !.id = id, !.out = freed, !.bad = id \notin live]
    /\ UNCHANGED <<tables, rows, shadow, planner>>

CallAllocatePage ==
    LET a == Storage_allocate_page(M, TableData) IN
    /\ a.m.st.next_page_id <= DEFAULT_PAGE + MaxIds
    /\ SetM(a.m)
    /\ live' = live \cup {a.page.id}
    /\ last' = [Call("allocate_page", "", "ok") EXCEPT !.id = a.page.id, !.out = freed]
    /\ UNCHANGED <<tables, rows, freed, shadow, planner>>

CallDeletePage(id) ==
    /\ Len(st.free_ids) < MaxIds
    /\ SetM(Storage_delete_page(M, id))
    /\ freed' = Append(freed, id)
    /\ live' = live \ {id}
    /\ last' = [Call("delete_page", "", "ok") EXCEPT
                  !.id = id, !.out = freed, !.bad = id \notin live]
    /\ UNCHANGED <<tables, rows, shadow, planner>>

NextStorage ==
    \/ CallAllocateId
    \/ \E id \in Allocated : CallFreeId(id)
    \/ CallAllocatePage
    \/ \E id \in Allocated : CallDeletePage(id)
    \/ \E page_size \in PageSizes : ReopenWith(page_size)

SpecStorage == Init /\ [][NextStorage]_vars

(***************************************************************************)
(* The planner catalog: types are added under a name, and the planner is   *)
(* reopened over the same blob store.  In last, name is the type name and  *)
(* out holds the type given.                                               *)
(***************************************************************************)
TypeNames == {"A", "B"}

Opt == [name |-> "B", dependencies |-> <<>>,
        variants |-> <<[name |-> "A", content |-> <<>>],
                       [name |-> "B", content |-> << <<"c", TPrim("Int")>> >>]>>]
Dep == [name |-> "A", dependencies |-> << <<"c", TPrim("Bool")>> >>,
        variants |-> <<[name |-> "c", content |-> << <<"c", Text>> >>]>>]
EnumTypes == {Opt, Dep}

AddMessageType(type_name, message_type) ==
    LET r == add_message_type(M, planner, type_name, message_type) IN
    /\ SetM(r.m)
    /\ planner' = r.state
    /\ last' = [Call("add_message_type", type_name, r.res) EXCEPT
                  !.out = <<message_type>>, !.prev = Brief(last)]
    /\ UNCHANGED <<tables, rows, freed, live, shadow>>

AddEnumType(type_name, enum_type) ==
    LET r == add_enum_type(M, planner, type_name, enum_type) IN
    /\ SetM(r.m)
    /\ planner' = r.state
    /\ last' = [Call("add_enum_type", type_name, r.res) EXCEPT
                  !.out = <<enum_type>>, !.prev = Brief(last)]
    /\ UNCHANGED <<tables, rows, freed, live, shadow>>

NextPlanner ==
    \/ \E type_name \in TypeNames, message_type \in Schemas :
          AddMessageType(type_name, message_type)
    \/ \E type_name \in TypeNames, enum_type \in EnumTypes :
          AddEnumType(type_name, enum_type)
    \/ Reopen

SpecPlanner == Init /\ [][NextPlanner]_vars

(***************************************************************************)
(* The buffer pool driven directly, as buffer_pool_test drives it: pages   *)
(* are allocated, changed through get_page_mut with the dirty bit set by   *)
(* the caller, read through get_page, and flushed.  shadow maps each page  *)
(* id to the page as the caller last left it.                              *)
(***************************************************************************)
\* the page size of the store the page-level specifications open
SmallPageSize == 2

InitPages ==
    LET s == Storage_new(Empty, SmallPageSize) IN
    /\ disk = s.disk
    /\ st = s.st
    /\ cache = Empty
    /\ tables = Empty
    /\ rows = Empty
    /\ freed = <<>>
    /\ live = {}
    /\ shadow = Empty
    /\ planner = QueryPlanner_new(s.disk).state
    /\ last = Call("open", "", "ok")

\* the contents a caller assigns to page.0.data
Datas == {<<1>>, <<2, 2>>}

PoolAllocate ==
    \E a \in BufferPool_allocate_page(M, TableData) :
        /\ a.m.st.next_page_id <= DEFAULT_PAGE + MaxIds
        /\ SetM(a.m)
        /\ shadow' = Put(shadow, a.id, [id |-> a.id, page_type |-> TableData,
                                        obj_count |-> 0, data |-> <<>>])
        /\ last' = [Call("allocate_page", "", "ok") EXCEPT !.id = a.id]
        /\ UNCHANGED <<tables, rows, freed, live, planner>>

\* let mut page = get_page_mut(id); page.0.data = data; page.1 = true
PoolModify(id, data) ==
    \E g \in get_page_mut(M, id) :
        /\ g.err = "ok"
        /\ SetM(Encache(g.m, id, [g.m.cache[id].page EXCEPT !.data = data], TRUE))
        /\ shadow' = [shadow EXCEPT ![id].data = data]
        /\ last' = [Call("get_page_mut", "", "ok") EXCEPT !.id = id, !.out = data]
        /\ UNCHANGED <<tables, rows, freed, live, planner>>

\* get_page(id); out and ret are the data and the object count it shows
PoolGet(id) ==
    \E g \in get_page(M, id) :
        /\ g.err = "ok"
        /\ SetM(g.m)
        /\ last' = [Call("get_page", "", "ok") EXCEPT
                      !.id = id, !.out = g.m.cache[id].page.data,
                      !.ret = g.m.cache[id].page.obj_count]
        /\ UNCHANGED <<tables, rows, freed, live, shadow, planner>>

\* flush(); ret is the number of dirty pages it found, prev the call before
PoolFlush ==
    /\ SetM(flush(M))
    /\ last' = [Call("flush", "", "ok") EXCEPT
                  !.ret = Cardinality({id \in DOMAIN cache : cache[id].dirty}),
                  !.prev = Brief(last)]
    /\ UNCHANGED <<tables, rows, freed, live, shadow, planner>>

NextPool ==
    \/ PoolAllocate
    \/ \E id \in Allocated, data \in Datas : PoolModify(id, data)
    \/ \E id \in Allocated : PoolGet(id)
    \/ PoolFlush

SpecPool == InitPages /\ [][NextPool]_vars

(***************************************************************************)
(* The paged storage driven directly, as paged_storage_test drives it.     *)
(* In last, id is the page, arg the offset or length argument, out the     *)
(* bytes given (for read_data: the bytes returned), ret the value          *)
(* returned (for read_data: the len argument).                              *)
(***************************************************************************)
\* the number of pages allocated
MaxPages == 2

\* the byte strings appended and written, and the argument values
Appended == {<<1>>, <<1, 1>>}
Written == {<<2>>}
Offsets == {0, 1, st.page_size}
Lens == {1, 2}
Counts == {1}

PageCall(op, id, res) ==
    [Call(op, "", res) EXCEPT !.id = id]

PagesAllocate ==
    \E a \in BufferPool_allocate_page(M, TableData) :
        /\ a.m.st.next_page_id <= DEFAULT_PAGE + MaxPages
        /\ SetM(a.m)
        /\ last' = PageCall("allocate_page", a.id, "ok")
        /\ UNCHANGED <<tables, rows, freed, live, shadow, planner>>

PagesAppend(id, data) ==
    \E r \in append_data(M, id, data) :
        /\ SetM(r.m)
        /\ last' = [PageCall("append_data", id, r.err) EXCEPT !.out = data, !.ret = r.ret]
        /\ UNCHANGED <<tables, rows, freed, live, shadow, planner>>

PagesWrite(id, offset, data) ==
    \E r \in write_data(M, id, offset, data) :
        /\ SetM(r.m)
        /\ last' = [PageCall("write_data", id, r.err) EXCEPT !.arg = offset, !.out = data]
        /\ UNCHANGED <<tables, rows, freed, live, shadow, planner>>

PagesCut(id, len) ==
    \E r \in cut_data(M, id, len) :
        /\ SetM(r.m)
        /\ last' = [PageCall("cut_data", id, r.err) EXCEPT !.arg = len]
        /\ UNCHANGED <<tables, rows, freed, live, shadow, planner>>

PagesSetCount(id, obj_count) ==
    \E r \in set_obj_count(M, id, obj_count) :
        /\ SetM(r.m)
        /\ last' = [PageCall("set_obj_count", id, r.err) EXCEPT !.arg = obj_count]
        /\ UNCHANGED <<tables, rows, freed, live, shadow, planner>>

PagesRead(id, offset, len) ==
    \E r \in read_data(M, id, offset, len) :
        /\ SetM(r.m)
        /\ last' = [PageCall("read_data", id, r.err) EXCEPT
                      !.arg = offset, !.ret = len, !.out = r.ret]
        /\ UNCHANGED <<tables, rows, freed, live, shadow, planner>>

PagesGetCount(id) ==
    \E r \in get_obj_count(M, id) :
        /\ SetM(r.m)
        /\ last' = [PageCall("get_obj_count", id, r.err) EXCEPT !.ret = r.ret]
        /\ UNCHANGED <<tables, rows, freed, live, shadow, planner>>

PagesFlush ==
    /\ SetM(flush(M))
    /\ last' = PageCall("flush", 0, "ok")
    /\ UNCHANGED <<tables, rows, freed, live, shadow, planner>>

NextPages ==
    \/ PagesAllocate
    \/ \E id \in Allocated, data \in Appended : PagesAppend(id, data)
    \/ \E id \in Allocated, offset \in Offsets, data \in Written :
          PagesWrite(id, offset, data)
    \/ \E id \in Allocated, len \in Lens : PagesCut(id, len)
    \/ \E id \in Allocated, obj_count \in Counts : PagesSetCount(id, obj_count)
    \/ \E id \in Allocated, offset \in Offsets, len \in Lens : PagesRead(id, offset, len)
    \/ \E id \in Allocated : PagesGetCount(id)
    \/ PagesFlush

SpecPages == InitPages /\ [][NextPages]_vars

(***************************************************************************)
(* What is stored, read without going through the buffer pool's            *)
(* operations: a page as the process sees it (the cached copy if there is  *)
(* one, else the blob), and the records laid out on a table's pages.       *)
(***************************************************************************)
PageView(id) ==
    IF id \in DOMAIN cache THEN cache[id].page
    ELSE IF id \in DOMAIN disk /\ DecodePage(disk[id]).ok THEN DecodePage(disk[id]).page
    ELSE NoPage

RECURSIVE PageRecords(_, _, _)
\* the first n records of data from position pos on (fewer if one fails)
PageRecords(data, pos, n) ==
    IF n = 0 THEN <<>>
    ELSE LET w == DecodeWrapped(SubSeq(data, pos, Len(data))) IN
         IF ~w.ok THEN <<>>
         ELSE <<w>> \o PageRecords(data, pos + w.read, n - 1)

TableRecords(os) ==
    Concat([i \in 1..Len(os.pages) |->
              PageRecords(PageView(os.pages[i]).data, 1, PageView(os.pages[i]).obj_count)])

\* the rule of wrap_and_encode, read off the store
StoredAs(os, rec, row) ==
    IF Len(EncodeReal(row)) > st.page_size
    THEN /\ rec.kind = "Index"
         /\ rec.id \in Range(os.overflow_pages)
         /\ rec.id \in DOMAIN disk
         /\ disk[rec.id] = EncodeReal(row)
    ELSE /\ rec.kind = "Real"
         /\ rec.message = row

\* the row a record stands for
Resolve(rec) ==
    IF rec.kind = "Real" THEN rec.message
    ELSE IF rec.id \in DOMAIN disk /\ DecodeWrapped(disk[rec.id]).ok
              /\ DecodeWrapped(disk[rec.id]).kind = "Real"
         THEN DecodeWrapped(disk[rec.id]).message
         ELSE NoMessage

Known(n) == n \in DOMAIN tables /\ rows[n].status # "unknown"

IsOverflow(row) == Len(EncodeReal(row)) > PageSize

(***************************************************************************)
(* C1  Insert/iterate round trip: iterating a table that only ever saw     *)
(* successful insert_messages calls yields exactly the rows given to it,   *)
(* in insertion order, in the same process and after a reopen.             *)
(***************************************************************************)
C1_RoundTrip ==
    (last.op = "iter" /\ last.name \in DOMAIN tables
        /\ rows[last.name].status = "clean")
    => (last.res = "ok" /\ last.out = rows[last.name].seq)

(***************************************************************************)
(* C2  Overflow round trip: a row whose encoding is longer than page_size  *)
(* lies on its page as an Index record whose id is in overflow_pages and   *)
(* holds the full Real encoding, a row that fits lies there as a Real      *)
(* record; iterating a non-empty table right after a reopen yields the     *)
(* rows given to it, in order.                                             *)
(***************************************************************************)
C2_OverflowRoundTrip ==
    /\ \A n \in DOMAIN tables :
         Known(n) =>
            LET recs == TableRecords(tables[n]) IN
            /\ Len(recs) = Len(rows[n].seq)
            /\ \A i \in 1..Len(recs) : StoredAs(tables[n], recs[i], rows[n].seq[i])
    /\ (last.op = "iter" /\ last.prev.op = "reopen" /\ Known(last.name)
            /\ rows[last.name].seq # <<>>)
       => (last.res = "ok" /\ last.out = rows[last.name].seq)

C2_Witness ==
    /\ last.op = "iter" /\ last.prev.op = "reopen" /\ last.res = "ok"
    /\ \E i, j \in 1..Len(last.out) :
          ~IsOverflow(last.out[i]) /\ IsOverflow(last.out[j])

(***************************************************************************)
(* C3  Type-mismatch insertion: insert_messages returns                    *)
(* MessageTypeMismatch exactly when the batch has a row that does not      *)
(* match, and an iteration that follows such a call yields the rows the    *)
(* table had before followed by the rows of the batch before the           *)
(* mismatched one.                                                         *)
(***************************************************************************)
C3_MismatchKeepsPrefix ==
    /\ (last.op = "insert_messages" /\ last.res # "TableNotFound")
       => (last.res = IF last.bad THEN "MessageTypeMismatch" ELSE "ok")
    /\ (last.op = "iter" /\ last.prev.op = "insert_messages"
            /\ last.prev.res = "MessageTypeMismatch" /\ last.prev.name = last.name
            /\ Known(last.name))
       => (last.res = "ok" /\ last.out = rows[last.name].seq)

(***************************************************************************)
(* C4  Every row an iteration yields matches the table's MessageType, and  *)
(* every record on a table's pages stands for a row that matches it.       *)
(***************************************************************************)
C4_StoredRowsMatch ==
    /\ (last.op = "iter" /\ last.name \in DOMAIN tables)
       => \A i \in 1..Len(last.out) :
             match_message(tables[last.name].schema, last.out[i])
    /\ \A n \in DOMAIN tables :
          LET recs == TableRecords(tables[n]) IN
          \A i \in 1..Len(recs) : match_message(tables[n].schema, Resolve(recs[i]))

C4_Witness ==
    /\ last.op = "iter" /\ last.res = "ok" /\ last.out # <<>>
    /\ last.prev.op = "insert_messages" /\ last.prev.res = "MessageTypeMismatch"

(***************************************************************************)
(* C5  A table created right after the drop of a table of the same name    *)
(* and type iterates as empty, whatever the dropped table held.            *)
(***************************************************************************)
C5_DropThenCreateIsEmpty ==
    (last.op = "iter" /\ last.prev.op = "create_table" /\ last.prev.res = "ok"
        /\ last.prev.recreated /\ last.prev.name = last.name)
    => (last.res = "ok" /\ last.out = <<>>)

C5_Witness ==
    /\ last.op = "iter" /\ last.prev.op = "create_table" /\ last.prev.recreated
    /\ last.prev.name = last.name
    /\ \E i, j \in 1..Len(last.prev.out) :
          ~IsOverflow(last.prev.out[i]) /\ IsOverflow(last.prev.out[j])

(***************************************************************************)
(* C6  After a drop, every id of the dropped table's pages and             *)
(* overflow_pages lists is gone from the blob store and is in the free     *)
(* list, and both lists of the dropped ObjectStorage are empty.            *)
(***************************************************************************)
C6_DropFreesEveryId ==
    (last.op = "drop_table" /\ last.res = "ok")
    => /\ \A id \in Range(last.before.pages) \cup Range(last.before.overflow_pages) :
            /\ read_page(M, id).err = "PageNotFound"
            /\ id \in Range(st.free_ids)
       /\ last.after.pages = <<>>
       /\ last.after.overflow_pages = <<>>

C6_Witness ==
    /\ last.op = "drop_table" /\ last.res = "ok"
    /\ Len(last.before.pages) = 2
    /\ last.before.overflow_pages # <<>>

(***************************************************************************)
(* C9  When create_table, drop_table or insert_messages has returned       *)
(* success, the catalog at id 1 is the catalog in memory, no cached page   *)
(* is dirty, and what a reopen would load (allocator state, catalog,       *)
(* pages) is what the process holds.                                       *)
(***************************************************************************)
C9_SuccessIsDurable ==
    (last.op \in {"create_table", "drop_table", "insert_messages"} /\ last.res = "ok")
    => /\ TABLE_STATE_INDEX \in DOMAIN disk
       /\ DecodeCatalog(disk[TABLE_STATE_INDEX]) = [ok |-> TRUE, tables |-> tables]
       /\ \A id \in DOMAIN cache : ~cache[id].dirty
       /\ TableManager_new(disk) = tables
       /\ Storage_new(disk, PageSize).st = st
       /\ \A id \in DOMAIN cache :
             read_page(M, id) = [err |-> "ok", page |-> cache[id].page]
       /\ \A n \in DOMAIN tables : \A id \in Range(tables[n].pages) :
             read_page(M, id).err = "ok"

C9_Witness ==
    /\ last.op = "insert_messages" /\ last.res = "ok"
    /\ Len(tables[last.name].pages) = 2
    /\ tables[last.name].overflow_pages # <<>>

(***************************************************************************)
(* C7  drop_table, insert_messages and iter on a name that is not in the   *)
(* catalog return TableNotFound and change neither the catalog, nor a      *)
(* page (stored or cached), nor the allocator state; on a name that is in  *)
(* the catalog they do not return TableNotFound.                           *)
(***************************************************************************)
C7_MissingTableIsNotFound ==
    [][last'.op \in {"drop_table", "insert_messages", "iter"}
        => IF last'.name \in DOMAIN tables
           THEN last'.res # "TableNotFound"
           ELSE /\ last'.res = "TableNotFound"
                /\ UNCHANGED <<disk, st, cache, tables>>]_vars

C7_Witness ==
    /\ last.op = "drop_table" /\ last.res = "TableNotFound"
    /\ last.name \in Strangers
    /\ \E n \in DOMAIN tables : tables[n].pages # <<>>
    /\ \E id \in DOMAIN cache : cache[id].dirty
    /\ st.free_ids # <<>>

(***************************************************************************)
(* C8  create_table with a name in the catalog returns TableAlreadyExists  *)
(* and changes nothing; with a new name it registers an ObjectStorage      *)
(* with the given schema and no page, and leaves the other tables as they  *)
(* are; an iteration right after a create yields no row; no step changes   *)
(* the schema of a name that stays in the catalog, and only drop_table     *)
(* and create_table replace its pages by none.                             *)
(***************************************************************************)
C8_CreateTable ==
    /\ [][last'.op = "create_table"
            => IF last'.name \in DOMAIN tables
               THEN /\ last'.res = "TableAlreadyExists"
                    /\ UNCHANGED <<disk, st, cache, tables, rows>>
               ELSE /\ last'.res = "ok"
                    /\ DOMAIN tables' = DOMAIN tables \cup {last'.name}
                    /\ tables'[last'.name] =
                          [schema |-> last'.after.schema, pages |-> <<>>,
                           overflow_pages |-> <<>>]
                    /\ \A n \in DOMAIN tables : tables'[n] = tables[n]]_vars
    /\ [][last'.op \notin {"drop_table", "create_table", "reopen"}
            => \A n \in DOMAIN tables :
                  /\ n \in DOMAIN tables'
                  /\ tables'[n].schema = tables[n].schema
                  /\ Len(tables'[n].pages) >= Len(tables[n].pages)]_vars
    /\ [](last.op = "iter" /\ last.prev.op = "create_table" /\ last.prev.res = "ok"
            /\ last.prev.name = last.name
          => last.res = "ok" /\ last.out = <<>>)

C8_Witness ==
    /\ last.op = "create_table" /\ last.res = "TableAlreadyExists"
    /\ tables[last.name].schema # last.after.schema
    /\ rows[last.name].seq # <<>>

(***************************************************************************)
(* C10  allocate_id hands out the ids given back by free_id and            *)
(* delete_page in the order they were given back, across a reopen as       *)
(* well, and leaves next_page_id alone while doing so; when no id is       *)
(* waiting it returns next_page_id and increments it.                      *)
(***************************************************************************)
C10_FreeListIsFifo ==
    [][last'.op = "allocate_id"
        => IF freed # <<>>
           THEN /\ last'.id = Head(freed)
                /\ st'.next_page_id = st.next_page_id
           ELSE /\ last'.id = st.next_page_id
                /\ st'.next_page_id = st.next_page_id + 1]_vars

C10_Witness ==
    /\ last.op = "allocate_id" /\ last.prev.op = "reopen"
    /\ Len(last.out) >= 2
    /\ last.id = last.out[1]
    /\ last.out[1] > last.out[2]

Ids == DEFAULT_PAGE..(DEFAULT_PAGE + MaxIds + 1)

IdStates(id) ==
    {k \in {"never", "live", "free"} :
        CASE k = "never" -> id >= st.next_page_id
          [] k = "live" -> id \in live
          [] k = "free" -> id \in Range(st.free_ids)}

ThreeStates ==
    \A id \in Ids :
        /\ Cardinality(IdStates(id)) = 1
        /\ Cardinality({i \in DOMAIN st.free_ids : st.free_ids[i] = id}) <= 1

C12_ThreeStates == ThreeStates

(***************************************************************************)
(* C12, for callers that give back only ids they hold: the three states    *)
(* hold at the start, every call made in a state where they hold leaves    *)
(* them holding unless it gives back an id the caller does not hold, and   *)
(* allocate_id and allocate_page then hand out no id that is live.         *)
(***************************************************************************)
C12_ThreeStatesOfHeldIds ==
    /\ ThreeStates
    /\ [][(ThreeStates /\ ~last'.bad)
            => /\ ThreeStates'
               /\ last'.op \in {"allocate_id", "allocate_page"} => last'.id \notin live]_vars

C12_Witness ==
    /\ ThreeStates
    /\ last.op = "allocate_id" /\ last.out # <<>> /\ last.id = Head(last.out)
    /\ st.free_ids # <<>>
    /\ Cardinality(live) >= 2

(***************************************************************************)
(* C13  A reopen leaves the allocator state as it was before the close,    *)
(* whatever page_size it is given: page_size stays the one of the first    *)
(* open, next_page_id is never below DEFAULT_PAGE and is DEFAULT_PAGE in   *)
(* a fresh directory, and delete_page does not change it.                  *)
(***************************************************************************)
C13_ReopenRestoresAllocator ==
    /\ [](st.page_size = PageSize /\ st.next_page_id >= DEFAULT_PAGE)
    /\ [](last.op = "open" => st.next_page_id = DEFAULT_PAGE)
    /\ [][last'.op = "reopen" => st' = st /\ disk' = disk]_vars
    /\ [][last'.op = "delete_page" => st'.next_page_id = st.next_page_id]_vars

C13_Witness ==
    /\ last.op = "reopen" /\ last.id # st.page_size
    /\ st.next_page_id > DEFAULT_PAGE + 1
    /\ st.free_ids # <<>>

(***************************************************************************)
(* C14: with a pool of capacity c, after more than c distinct pages were   *)
(* changed through get_page_mut with the dirty bit set and the pool was    *)
(* flushed, the blob store holds the latest contents of every page, as if  *)
(* each had been written with write_page, and every cached page is clean.  *)
(***************************************************************************)
RECURSIVE WriteEach(_, _)
\* write_page for every page of the function pages, one at a time
WriteEach(m, pages) ==
    IF DOMAIN pages = {} THEN m
    ELSE LET id == CHOOSE x \in DOMAIN pages : TRUE
         IN WriteEach(write_page(m, pages[id]), Del(pages, id))

C14_FlushStoresLatest ==
    [][last'.op = "flush" =>
          /\ disk' = WriteEach(M, shadow).disk
          /\ \A id \in DOMAIN shadow : read_page(M', id).page = shadow[id]
          /\ \A id \in DOMAIN cache' : ~cache'[id].dirty]_vars

C14_Witness ==
    /\ last.op = "flush"
    /\ last.ret >= 1
    /\ Cardinality(DOMAIN shadow) > Capacity + 1
    /\ \A id \in DOMAIN shadow : shadow[id].data # <<>>
    /\ \E id \in DOMAIN shadow : id \notin DOMAIN cache

(***************************************************************************)
(* C16: flush is idempotent.  A flush that follows a flush changes neither *)
(* the blob store nor the cached pages, and after any flush every dirty    *)
(* bit is clear, so that flushing the result again gives the same result.  *)
(***************************************************************************)
C16_FlushIsIdempotent ==
    /\ [](LET f == flush(M) IN
            /\ flush(f) = f
            /\ \A id \in DOMAIN f.cache : ~f.cache[id].dirty)
    /\ [][last'.op = "flush" =>
            /\ M' = flush(M)
            /\ \A id \in DOMAIN cache' : ~cache'[id].dirty
            /\ last.op = "flush" => M' = M]_vars

C16_Witness ==
    /\ last.op = "flush"
    /\ last.prev.op = "flush"
    /\ cache # Empty
    /\ \E id \in DOMAIN cache : cache[id].page.data # <<>>

(***************************************************************************)
(* C15: eviction is observationally free.  A call on one page leaves what  *)
(* get_page, read_data and get_obj_count return for every other page as it *)
(* was, whether or not the call evicted that page from the pool.           *)
(***************************************************************************)
\* what the read calls return for page id from machine m
Observe(m, id) ==
    [page |-> {g.m.cache[id].page : g \in {x \in get_page(m, id) : x.err = "ok"}},
     data |-> {r.ret : r \in UNION {read_data(m, id, 0, n) : n \in 0..m.st.page_size}},
     obj_count |-> {r.ret : r \in get_obj_count(m, id)}]

C15_EvictionKeepsPages ==
    [][\A id \in Allocated : id # last'.id => Observe(M', id) = Observe(M, id)]_vars

(***************************************************************************)
(* C17: append_data puts the bytes at the tail of the page's data and      *)
(* returns the new length; when the result would be longer than page_size  *)
(* it fails with PageFull and leaves the data, the object count and the    *)
(* dirty bit as they were.  No page's data is ever longer than page_size.  *)
(***************************************************************************)
\* page id as machine m holds it: the cached copy, else the stored one
PageIn(m, id) ==
    IF id \in DOMAIN m.cache THEN m.cache[id].page ELSE read_page(m, id).page

\* the dirty bit of page id; a page that is not cached has none set
DirtyIn(m, id) == id \in DOMAIN m.cache /\ m.cache[id].dirty

C17_AppendData ==
    /\ [](\A id \in Allocated : Len(PageView(id).data) <= st.page_size)
    /\ [][last'.op = "append_data" =>
            LET old == PageIn(M, last'.id)
                new == PageIn(M', last'.id)
            IN IF Len(old.data) + Len(last'.out) <= st.page_size
               THEN /\ last'.res = "ok"
                    /\ new = [old EXCEPT !.data = @ \o last'.out]
                    /\ last'.ret = Len(new.data)
                    /\ DirtyIn(M', last'.id)
               ELSE /\ last'.res = "PageFull"
                    /\ new = old
                    /\ DirtyIn(M', last'.id) = DirtyIn(M, last'.id)]_vars

C17_Witness ==
    /\ last.op = "append_data"
    /\ last.res = "PageFull"
    /\ Len(PageView(last.id).data) = st.page_size
    /\ Len(last.out) = 1
    /\ DirtyIn(M, last.id)
    /\ PageView(last.id).obj_count > 0

(***************************************************************************)
(* C18: write_data overwrites data[offset..offset + len); a write that     *)
(* ends past the current length grows the data and fills the gap with      *)
(* zero bytes; every other byte stays.  When offset + len > page_size it   *)
(* fails with PageFull and leaves the page as it was.                      *)
(***************************************************************************)
C18_WriteData ==
    [][last'.op = "write_data" =>
          LET old == PageIn(M, last'.id)
              new == PageIn(M', last'.id)
              offset == last'.arg
              data_end == offset + Len(last'.out)
          IN IF data_end <= st.page_size
             THEN /\ last'.res = "ok"
                  /\ Len(new.data) = IF data_end > Len(old.data) THEN data_end
                                     ELSE Len(old.data)
                  /\ \A i \in 1..Len(new.data) :
                        new.data[i] = IF i > offset /\ i <= data_end
                                      THEN last'.out[i - offset]
                                      ELSE IF i <= Len(old.data) THEN old.data[i]
                                      ELSE 0
                  /\ new = [old EXCEPT !.data = new.data]
             ELSE /\ last'.res = "PageFull"
                  /\ new = old
                  /\ DirtyIn(M', last'.id) = DirtyIn(M, last'.id)]_vars

C18_Witness ==
    /\ last.op = "write_data"
    /\ last.res = "ok"
    /\ last.arg = 1
    /\ PageView(last.id).data = <<0, 2>>
    /\ \E id \in Allocated : id # last.id /\ PageView(id).data = <<2, 1>>

(***************************************************************************)
(* C19: cut_data keeps the first len bytes of the data and does nothing    *)
(* when len is not below the current length; read_data returns a copy of   *)
(* data[offset..offset + len) when that range lies within the data and     *)
(* fails with InvalidOperation otherwise, a range that was cut away        *)
(* included, and it leaves the page as it was.                             *)
(***************************************************************************)
C19_CutAndRead ==
    /\ [][last'.op = "cut_data" =>
            LET old == PageIn(M, last'.id)
                new == PageIn(M', last'.id)
                len == last'.arg
            IN /\ last'.res = "ok"
               /\ IF len >= Len(old.data)
                  THEN new = old /\ DirtyIn(M', last'.id) = DirtyIn(M, last'.id)
                  ELSE /\ new = [old EXCEPT !.data = SubSeq(old.data, 1, len)]
                       /\ \A r \in read_data(M', last'.id, len, 1) :
                             r.err = "InvalidOperation"]_vars
    /\ [][last'.op = "read_data" =>
            LET old == PageIn(M, last'.id)
                offset == last'.arg
                len == last'.ret
            IN /\ PageIn(M', last'.id) = old
               /\ DirtyIn(M', last'.id) = DirtyIn(M, last'.id)
               /\ IF offset + len <= Len(old.data)
                  THEN /\ last'.res = "ok"
                       /\ last'.out = SubSeq(old.data, offset + 1, offset + len)
                  ELSE last'.res = "InvalidOperation"]_vars

C19_Witness ==
    /\ last.op = "cut_data"
    /\ last.arg = 1
    /\ PageView(last.id).data = <<2>>
    /\ Len(read_page(M, last.id).page.data) = 2
    /\ DirtyIn(M, last.id)
    /\ \A r \in read_data(M, last.id, 1, 1) : r.err = "InvalidOperation"
    /\ \A r \in read_data(M, last.id, 0, 1) : r.err = "ok" /\ r.ret = <<2>>

(***************************************************************************)
(* C20: add_message_type and add_enum_type fail with DuplicateMessageType  *)
(* and DuplicateEnumType when the name is already in the catalog, and then *)
(* leave the catalog as it was; an add that succeeds has stored the new    *)
(* catalog at the reserved id 2 when it returns; a planner reopened over   *)
(* the same blob store has the same catalog.                               *)
(***************************************************************************)
C20_PlannerCatalog ==
    /\ [](QueryPlanner_new(disk) = [err |-> "ok", state |-> planner])
    /\ [][last'.op = "add_message_type" =>
            IF last'.name \in DOMAIN planner.message_types
            THEN /\ last'.res = "DuplicateMessageType"
                 /\ planner' = planner
                 /\ disk' = disk
            ELSE /\ last'.res = "ok"
                 /\ planner' = [planner EXCEPT
                                  !.message_types = Put(@, last'.name, last'.out[1])]
                 /\ PLANNER_STATE_INDEX \in DOMAIN disk'
                 /\ DecodePlannerState(disk'[PLANNER_STATE_INDEX]) =
                        [ok |-> TRUE, v |-> planner']]_vars
    /\ [][last'.op = "add_enum_type" =>
            IF last'.name \in DOMAIN planner.enum_types
            THEN /\ last'.res = "DuplicateEnumType"
                 /\ planner' = planner
                 /\ disk' = disk
            ELSE /\ last'.res = "ok"
                 /\ planner' = [planner EXCEPT
                                  !.enum_types = Put(@, last'.name, last'.out[1])]
                 /\ PLANNER_STATE_INDEX \in DOMAIN disk'
                 /\ DecodePlannerState(disk'[PLANNER_STATE_INDEX]) =
                        [ok |-> TRUE, v |-> planner']]_vars
    /\ [][last'.op = "reopen" => planner' = planner]_vars

C20_Witness ==
    /\ last.op = "reopen"
    /\ DOMAIN planner.message_types = TypeNames
    /\ DOMAIN planner.enum_types = TypeNames
    /\ planner.message_types["A"] # planner.message_types["B"]
    /\ planner.enum_types["A"] # planner.enum_types["B"]

(***************************************************************************)
(* Expressions (executor_layer/expression.rs).                             *)
(***************************************************************************)
Literal(value) == [kind |-> "Literal", value |-> value]
ColumnRef(index) == [kind |-> "ColumnRef", index |-> index]
BinaryOp(op, left, right) == [kind |-> "BinaryOp", op |-> op, left |-> left, right |-> right]
UnaryOp(op, expr) == [kind |-> "UnaryOp", op |-> op, expr |-> expr]

Negate == [kind |-> "Negate"]
Not == [kind |-> "Not"]
MessageField(index) == [kind |-> "MessageField", index |-> index]
EnumMatch(expressions) == [kind |-> "EnumMatch", expressions |-> expressions]

BinaryOperators ==
    {"Add", "Subtract", "Multiply", "Divide", "Equals", "NotEquals",
     "LessThan", "GreaterThan", "And", "Or"}

\* the outcome of a call that panicked
Panic == [tag |-> "panic"]

\* i32 and u32 arithmetic.  A u32 above i32::MAX is held as the i32 of the
\* same bits, so that the wrapping sum, difference and product are the same
\* for both; what differs is when they overflow, the order and the quotient.
I32_MAX == 2147483647
I32_MIN == (0 - 2147483647) - 1

Sign(x) == IF x < 0 THEN 0 - 1 ELSE IF x > 0 THEN 1 ELSE 0

wrapping_add(a, b) ==
    IF b > 0 /\ a > I32_MAX - b THEN ((a - I32_MAX) - 1) + ((b - I32_MAX) - 1)
    ELSE IF b < 0 /\ a < I32_MIN - b THEN ((a + I32_MAX) + 1) + ((b + I32_MAX) + 1)
    ELSE a + b
wrapping_neg(a) == IF a = I32_MIN THEN I32_MIN ELSE 0 - a
wrapping_sub(a, b) == wrapping_add(a, wrapping_neg(b))

\* the order of u32, and a u32 shifted right by one
ULess(a, b) == IF (a < 0) = (b < 0) THEN a < b ELSE b < 0
Half(a) == IF a >= 0 THEN a \div 2 ELSE (((a + I32_MAX) + 1) \div 2) + 1073741824

\* the product, four bits of b at a time
Twice(a) == wrapping_add(a, a)
TimesNibble(a, n) ==
    wrapping_add(wrapping_add(IF n % 2 = 1 THEN a ELSE 0,
                              IF (n \div 2) % 2 = 1 THEN Twice(a) ELSE 0),
                 wrapping_add(IF (n \div 4) % 2 = 1 THEN Twice(Twice(a)) ELSE 0,
                              IF n \div 8 = 1 THEN Twice(Twice(Twice(a))) ELSE 0))
RECURSIVE wrapping_mul(_, _)
wrapping_mul(a, b) ==
    IF b = 0 THEN 0
    ELSE wrapping_add(TimesNibble(a, b % 16),
                      wrapping_mul(Twice(Twice(Twice(Twice(a)))), Half(Half(Half(Half(b))))))

\* i32 division truncates towards zero (b is neither 0 nor, for i32::MIN, -1)
i32_div(a, b) ==
    IF b = I32_MIN THEN (IF a = I32_MIN THEN 1 ELSE 0)
    ELSE LET mag(x) == IF x < 0 THEN 0 - x ELSE x IN
         IF a = I32_MIN
         THEN (IF mag(b) = 1 THEN I32_MIN
               ELSE 0 - (Sign(b) * ((mag(a + mag(b)) \div mag(b)) + 1)))
         ELSE Sign(a) * Sign(b) * (mag(a) \div mag(b))

\* u32 division (b is not 0)
u32_div(a, b) ==
    IF b < 0 THEN (IF ULess(a, b) THEN 0 ELSE 1)
    ELSE IF a >= 0 THEN a \div b
    ELSE LET h == Half(a) \div b
             q == wrapping_add(h, h)
             r == wrapping_sub(a, wrapping_mul(q, b))
         IN IF ULess(r, b) THEN q ELSE wrapping_add(q, 1)

\* whether the operation overflows the type
Overflows(tag, op, a, b) ==
    CASE op = "Add" /\ tag = "Int" ->
            (b > 0 /\ a > I32_MAX - b) \/ (b < 0 /\ a < I32_MIN - b)
      [] op = "Add" /\ tag = "UInt" -> ULess(wrapping_add(a, b), a)
      [] op = "Subtract" /\ tag = "Int" ->
            (b < 0 /\ a > I32_MAX + b) \/ (b > 0 /\ a < I32_MIN + b)
      [] op = "Subtract" /\ tag = "UInt" -> ULess(a, b)
      [] op = "Multiply" /\ tag = "Int" ->
            /\ a # 0
            /\ b # 0
            /\ \/ (a = 0 - 1 /\ b = I32_MIN)
               \/ (b = 0 - 1 /\ a = I32_MIN)
               \/ (~(a = 0 - 1 /\ wrapping_mul(a, b) = I32_MIN)
                     /\ i32_div(wrapping_mul(a, b), a) # b)
      [] op = "Multiply" /\ tag = "UInt" ->
            a # 0 /\ u32_div(wrapping_mul(a, b), a) # b

\* Add, Subtract, Multiply and Divide on two i32 or two u32: an overflow
\* panics in a build that checks it and wraps in one that does not; a zero
\* divisor panics, and so does i32::MIN / -1
IntegerArith(tag, op, a, b, checked) ==
    IF op = "Divide"
    THEN (IF b = 0 \/ (tag = "Int" /\ a = I32_MIN /\ b = 0 - 1) THEN Panic
          ELSE [tag |-> tag, v |-> IF tag = "Int" THEN i32_div(a, b) ELSE u32_div(a, b)])
    ELSE IF checked /\ Overflows(tag, op, a, b) THEN Panic
    ELSE [tag |-> tag,
          v |-> CASE op = "Add" -> wrapping_add(a, b)
                  [] op = "Subtract" -> wrapping_sub(a, b)
                  [] op = "Multiply" -> wrapping_mul(a, b)]

\* f32 arithmetic and comparison on <<n, d>>
DoubleIsNaN(a) == a[1] = 0 /\ a[2] = 0
DoubleArith(op, a, b) ==
    CASE op = "Add" ->
            IF a[2] = 0 /\ b[2] = 0
            THEN (IF Sign(a[1]) = Sign(b[1]) THEN a ELSE <<0, 0>>)
            ELSE <<a[1] * b[2] + b[1] * a[2], a[2] * b[2]>>
      [] op = "Subtract" ->
            IF a[2] = 0 /\ b[2] = 0
            THEN (IF Sign(a[1]) = 0 - Sign(b[1]) THEN a ELSE <<0, 0>>)
            ELSE <<a[1] * b[2] - b[1] * a[2], a[2] * b[2]>>
      [] op = "Multiply" -> <<a[1] * b[1], a[2] * b[2]>>
      [] op = "Divide" ->
            IF a[2] * b[1] < 0 THEN <<0 - (a[1] * b[2]), 0 - (a[2] * b[1])>>
            ELSE <<a[1] * b[2], a[2] * b[1]>>
DoubleLess(a, b) ==
    /\ ~DoubleIsNaN(a)
    /\ ~DoubleIsNaN(b)
    /\ IF a[2] = 0 /\ b[2] = 0 THEN Sign(a[1]) < Sign(b[1])
       ELSE a[1] * b[2] < b[1] * a[2]
DoubleEq(a, b) ==
    /\ ~DoubleIsNaN(a)
    /\ ~DoubleIsNaN(b)
    /\ IF a[2] = 0 /\ b[2] = 0 THEN Sign(a[1]) = Sign(b[1])
       ELSE a[1] * b[2] = b[1] * a[2]

\* the derived Ord of String: bytes in order, the prefix first
RECURSIVE StringLess(_, _)
StringLess(a, b) ==
    IF b = <<>> THEN FALSE
    ELSE IF a = <<>> THEN TRUE
    ELSE IF a[1] # b[1] THEN a[1] < b[1]
    ELSE StringLess(Tail(a), Tail(b))

\* the derived PartialEq of DBValue
RECURSIVE ValueEq(_, _)
AllEq(ls, rs) ==
    /\ Len(ls) = Len(rs)
    /\ \A i \in 1..Len(ls) : ValueEq(ls[i], rs[i])
ValueEq(l, r) ==
    /\ l.tag = r.tag
    /\ CASE l.tag = "Double" -> DoubleEq(l.v, r.v)
         [] l.tag = "Message" -> AllEq(l.v.fields, r.v.fields)
         [] l.tag = "EnumValue" ->
                /\ AllEq(l.v.dependencies, r.v.dependencies)
                /\ l.v.choice = r.v.choice
                /\ AllEq(l.v.values, r.v.values)
         [] OTHER -> l.v = r.v

Arithmetic == {"Add", "Subtract", "Multiply", "Divide"}

\* BinaryOperator::apply; checked tells whether the build checks overflow
BinaryOperator_apply(op, left, right, checked) ==
    IF left = Panic \/ right = Panic THEN Panic
    ELSE IF op \in Arithmetic /\ left.tag = right.tag /\ left.tag \in {"Int", "UInt"}
    THEN IntegerArith(left.tag, op, left.v, right.v, checked)
    ELSE IF op \in Arithmetic /\ left.tag = right.tag /\ left.tag = "Double"
    THEN [tag |-> "Double", v |-> DoubleArith(op, left.v, right.v)]
    ELSE IF op = "Equals" THEN VBool(ValueEq(left, right))
    ELSE IF op = "NotEquals" THEN VBool(~ValueEq(left, right))
    ELSE IF op \in {"LessThan", "GreaterThan"} /\ left.tag = right.tag
            /\ left.tag \in {"Double", "Int", "UInt", "String"}
    THEN LET a == IF op = "LessThan" THEN left.v ELSE right.v
             b == IF op = "LessThan" THEN right.v ELSE left.v
         IN VBool(CASE left.tag = "Double" -> DoubleLess(a, b)
                    [] left.tag = "String" -> StringLess(a, b)
                    [] left.tag = "UInt" -> ULess(a, b)
                    [] OTHER -> a < b)
    ELSE IF op = "And" /\ left.tag = "Bool" /\ right.tag = "Bool"
    THEN VBool(left.v /\ right.v)
    ELSE IF op = "Or" /\ left.tag = "Bool" /\ right.tag = "Bool"
    THEN VBool(left.v \/ right.v)
    ELSE Panic

RECURSIVE evaluate(_, _, _)

\* EnumMatch that evaluates the first arm whatever the choice
EnumMatch_first_arm(expressions, enum_value, checked) ==
    IF Len(expressions) = 0 THEN Panic
    ELSE evaluate(expressions[1], Message(enum_value.values), checked)

\* the EnumMatch arm of UnaryOperator::apply
EnumMatch_apply(expressions, enum_value, checked) ==
    IF enum_value.choice >= Len(expressions) THEN Panic
    ELSE evaluate(expressions[enum_value.choice + 1], Message(enum_value.values), checked)

\* UnaryOperator::apply
UnaryOperator_apply(op, value, checked) ==
    IF value = Panic THEN Panic
    ELSE CASE op.kind = "Negate" /\ value.tag = "Int" ->
                IF checked /\ value.v = I32_MIN THEN Panic
                ELSE VInt(wrapping_neg(value.v))
           [] op.kind = "Negate" /\ value.tag = "Double" ->
                VDouble(0 - value.v[1], value.v[2])
           [] op.kind = "Not" /\ value.tag = "Bool" -> VBool(~value.v)
           [] op.kind = "MessageField" /\ value.tag = "Message" ->
                IF op.index < Len(value.v.fields) THEN value.v.fields[op.index + 1]
                ELSE Panic
           [] op.kind = "EnumMatch" /\ value.tag = "EnumValue" ->
                EnumMatch_apply(op.expressions, value.v, checked)
           [] OTHER -> Panic

\* Expression::evaluate
evaluate(e, message, checked) ==
    CASE e.kind = "Literal" -> e.value
      [] e.kind = "ColumnRef" ->
            IF e.index < Len(message.fields) THEN message.fields[e.index + 1] ELSE Panic
      [] e.kind = "BinaryOp" ->
            BinaryOperator_apply(e.op, evaluate(e.left, message, checked),
                                 evaluate(e.right, message, checked), checked)
      [] e.kind = "UnaryOp" ->
            UnaryOperator_apply(e.op, evaluate(e.expr, message, checked), checked)

(***************************************************************************)
(* Type deduction (planner_layer/query_planner.rs).  A result is           *)
(* [ok |-> TRUE, type] or [ok |-> FALSE, err]; err = "panic" is a panic.   *)
(***************************************************************************)
TypeOk(t) == [ok |-> TRUE, type |-> t]
TypeErr(e) == [ok |-> FALSE, err |-> e]

\* impl From<&EnumVariantType> for MessageType
VariantMessageType(variant) ==
    TMessage(variant.name,
             [i \in 1..Len(variant.content) |->
                [column_name |-> variant.content[i][1],
                 column_type |-> variant.content[i][2],
                 dependencies |-> <<>>]])

\* type_name of a literal Message or EnumValue: None unless the value carries one
TypeNameOf(v) == IF "type_name" \in DOMAIN v THEN <<v.type_name>> ELSE <<>>

\* deduce_literal_type over the planner's catalog
deduce_literal_type(state, value) ==
    CASE value.tag = "Message" ->
            IF TypeNameOf(value.v) = <<>> THEN TypeErr("panic")
            ELSE IF value.v.type_name \in DOMAIN state.message_types
            THEN TypeOk(state.message_types[value.v.type_name])
            ELSE TypeErr("UnexistingMessageType")
      [] value.tag = "EnumValue" ->
            IF TypeNameOf(value.v) = <<>> THEN TypeErr("panic")
            ELSE IF value.v.type_name \in DOMAIN state.enum_types
            THEN TypeOk(TEnum(state.enum_types[value.v.type_name]))
            ELSE TypeErr("UnexistingEnumType")
      [] OTHER -> TypeOk(TPrim(value.tag))

\* deduce_binary_op_type without the comparison of the operand types
deduce_binary_op_type_left(op, left_type, right_type) ==
    CASE op \in Arithmetic ->
            IF left_type.tag \in {"Double", "UInt", "Int"} THEN TypeOk(left_type)
            ELSE TypeErr("WrongOperandTypes")
      [] op \in {"Equals", "NotEquals"} -> TypeOk(left_type)
      [] op \in {"LessThan", "GreaterThan"} ->
            IF left_type.tag \in {"Double", "UInt", "Int", "String"}
            THEN TypeOk(TPrim("Bool"))
            ELSE TypeErr("WrongOperandTypes")
      [] op \in {"And", "Or"} ->
            IF left_type.tag = "Bool" THEN TypeOk(TPrim("Bool"))
            ELSE TypeErr("WrongOperandTypes")

deduce_binary_op_type(op, left_type, right_type) ==
    IF left_type # right_type THEN TypeErr("WrongOperandTypes")
    ELSE CASE op \in Arithmetic ->
                IF left_type.tag \in {"Double", "UInt", "Int"} THEN TypeOk(left_type)
                ELSE TypeErr("WrongOperandTypes")
           [] op \in {"Equals", "NotEquals"} -> TypeOk(left_type)
           [] op \in {"LessThan", "GreaterThan"} ->
                IF left_type.tag \in {"Double", "UInt", "Int", "String"}
                THEN TypeOk(TPrim("Bool"))
                ELSE TypeErr("WrongOperandTypes")
           [] op \in {"And", "Or"} ->
                IF left_type.tag = "Bool" THEN TypeOk(TPrim("Bool"))
                ELSE TypeErr("WrongOperandTypes")

RECURSIVE deduce_expression_type(_, _, _)

\* the results of the arms, each typed against its own variant
ArmTypes(state, expressions, enum_type) ==
    [i \in 1..Len(expressions) |->
        deduce_expression_type(state, expressions[i],
                               VariantMessageType(enum_type.variants[i]))]

\* the EnumMatch arm that takes the first arm's type without comparing
EnumMatch_type_first(state, expressions, db_type) ==
    IF db_type.tag # "EnumValue" THEN TypeErr("WrongOperandTypes")
    ELSE IF Len(expressions) = 0 THEN TypeErr("EmptyMatchCases")
    ELSE IF Len(expressions) # Len(db_type.variants) THEN TypeErr("WrongOperandTypes")
    ELSE LET types == ArmTypes(state, expressions, db_type)
             failed == {i \in 1..Len(types) : ~types[i].ok}
         IN IF failed # {} THEN types[CHOOSE i \in failed : \A j \in failed : i <= j]
            ELSE types[1]

\* the EnumMatch arm of deduce_unary_op_type
EnumMatch_type(state, expressions, db_type) ==
    IF db_type.tag # "EnumValue" THEN TypeErr("WrongOperandTypes")
    ELSE IF Len(expressions) = 0 THEN TypeErr("EmptyMatchCases")
    ELSE IF Len(expressions) # Len(db_type.variants) THEN TypeErr("WrongOperandTypes")
    ELSE LET types == ArmTypes(state, expressions, db_type)
             failed == {i \in 1..Len(types) : ~types[i].ok}
         IN IF failed # {} THEN types[CHOOSE i \in failed : \A j \in failed : i <= j]
            ELSE IF \E i \in 1..Len(types) : types[i].type # types[1].type
            THEN TypeErr("AmbiguousMatchType")
            ELSE types[1]

deduce_unary_op_type(state, op, db_type) ==
    CASE op.kind = "Negate" ->
            IF db_type = TPrim("Double") \/ db_type = TPrim("Int") THEN TypeOk(db_type)
            ELSE TypeErr("WrongOperandTypes")
      [] op.kind = "Not" ->
            IF db_type = TPrim("Bool") THEN TypeOk(TPrim("Bool"))
            ELSE TypeErr("WrongOperandTypes")
      [] op.kind = "MessageField" ->
            IF db_type.tag = "Message" /\ op.index < Len(db_type.columns)
            THEN TypeOk(db_type.columns[op.index + 1].column_type)
            ELSE TypeErr("WrongOperandTypes")
      [] op.kind = "EnumMatch" -> EnumMatch_type(state, op.expressions, db_type)

deduce_expression_type(state, expression, message_type) ==
    CASE expression.kind = "Literal" -> deduce_literal_type(state, expression.value)
      [] expression.kind = "ColumnRef" ->
            IF expression.index < Len(message_type.columns)
            THEN TypeOk(message_type.columns[expression.index + 1].column_type)
            ELSE TypeErr("panic")
      [] expression.kind = "BinaryOp" ->
            LET left_type == deduce_expression_type(state, expression.left, message_type) IN
            IF ~left_type.ok THEN left_type
            ELSE LET right_type ==
                        deduce_expression_type(state, expression.right, message_type) IN
                 IF ~right_type.ok THEN right_type
                 ELSE deduce_binary_op_type(expression.op, left_type.type, right_type.type)
      [] expression.kind = "UnaryOp" ->
            LET db_type == deduce_expression_type(state, expression.expr, message_type) IN
            IF ~db_type.ok THEN db_type
            ELSE deduce_unary_op_type(state, expression.op, db_type.type)

(***************************************************************************)
(* Expressions typed and evaluated: each call draws its arguments from the *)
(* sets below and leaves them in last.out and its result in last.ret.      *)
(* The planner's catalog is the one the planner was opened with.           *)
(***************************************************************************)
MaxArms == 2

\* a schema with composite columns
Holder == TMessage("B", <<Named("A", TEnum(Opt), <<>>), Named("B", Text, <<>>)>>)

DBTypes ==
    {TPrim(t) : t \in {"Bool", "Double", "Int", "UInt", "String"}}
        \cup {Pair, Text, TEnum(Opt), TEnum(Dep)}

HolderRows ==
    {Message(<<VEnum(<<>>, 0, <<>>), VMessage(sSmall)>>),
     Message(<<VEnum(<<>>, 1, <<VInt(3)>>), VMessage(sSmall)>>)}
Typed == {<<Something, m>> : m \in SomethingRows} \cup {<<Holder, m>> : m \in HolderRows}

Leaves ==
    {ColumnRef(i) : i \in 0..3}
        \cup {Literal(v) : v \in {VUInt(0), VUInt(1), VInt(0), VInt(1), VInt(2147483647),
                                  VBool(TRUE), VDouble(1, 1), VDouble(0, 1),
                                  VString(<<>>)}}

ArmExprs ==
    {ColumnRef(0), Literal(VInt(1)), Literal(VString(<<>>)),
     BinaryOp("Divide", Literal(VInt(1)), Literal(VInt(0))),
     UnaryOp(MessageField(0), ColumnRef(0))}
Arms == UNION {[1..n -> ArmExprs] : n \in 0..MaxArms}

UnaryOperators == {Negate, Not, MessageField(0), MessageField(1)} \cup {EnumMatch(a) : a \in Arms}

\* the filter of deduce_expression_test and its neighbours
Nested ==
    {BinaryOp(op, ColumnRef(1), BinaryOp(cmp, ColumnRef(0), Literal(VUInt(1)))) :
        op \in {"And", "Or", "Equals"}, cmp \in {"GreaterThan", "Equals", "Add"}}

Expressions ==
    Leaves \cup Nested
        \cup {BinaryOp(op, l, r) : op \in BinaryOperators, l \in Leaves, r \in Leaves}
        \cup {UnaryOp(op, e) : op \in UnaryOperators, e \in Leaves}

EnumValues ==
    {VEnum(d, c, v) :
        d \in {<<>>, <<VBool(TRUE)>>, <<VInt(1)>>},
        c \in 0..2,
        v \in {<<>>, <<VInt(3)>>, <<VBool(TRUE)>>, <<VMessage(sSmall)>>,
               <<VMessage(mWrong)>>, <<VInt(3), VInt(3)>>}}
DBValues ==
    EnumValues
        \cup {VBool(TRUE), VInt(1), VUInt(1), VDouble(1, 1), VString(<<>>)}
        \cup {VMessage(m) : m \in {mWrong, sSmall, Message(<<VUInt(5), VBool(TRUE)>>),
                                   Message(<<>>)}}

\* the arguments drawn for a call of fn
Input(fn, args) == [Call("input", fn, "ok") EXCEPT !.out = args]
Inputs ==
    {Input("deduce_binary_op_type", <<op, l, r>>) :
        op \in BinaryOperators, l \in DBTypes, r \in DBTypes}
    \cup {Input("deduce_unary_op_type", <<op, t>>) : op \in UnaryOperators, t \in DBTypes}
    \cup {Input("deduce_expression_type", <<e, t>>) :
            e \in Expressions, t \in {Something, Holder}}
    \cup {Input("evaluate", <<e, typed[1], typed[2], checked>>) :
            e \in Expressions, typed \in Typed, checked \in BOOLEAN}
    \cup {Input("match_type_value", <<t, v>>) : t \in DBTypes, v \in DBValues}

InitExpr ==
    LET s == Storage_new(Empty, PageSize) IN
    /\ disk = s.disk
    /\ st = s.st
    /\ cache = Empty
    /\ tables = TableManager_new(s.disk)
    /\ rows = Empty
    /\ freed = <<>>
    /\ live = {}
    /\ shadow = Empty
    /\ planner = QueryPlanner_new(s.disk).state
    /\ last \in Inputs

Drawn(fn) == last.op = "input" /\ last.name = fn

Pure(op, res, ret) ==
    /\ last' = [Call(op, "", res) EXCEPT !.out = last.out, !.ret = ret]
    /\ UNCHANGED <<disk, st, cache, tables, rows, freed, live, shadow, planner>>

ResOf(r) == IF r.ok THEN "ok" ELSE r.err

\* out = <<op, left_type, right_type>>
CallDeduceBinary ==
    /\ Drawn("deduce_binary_op_type")
    /\ LET r == deduce_binary_op_type(last.out[1], last.out[2], last.out[3]) IN
       Pure("deduce_binary_op_type", ResOf(r), r)

\* out = <<op, db_type>>
CallDeduceUnary ==
    /\ Drawn("deduce_unary_op_type")
    /\ LET r == deduce_unary_op_type(planner, last.out[1], last.out[2]) IN
       Pure("deduce_unary_op_type", ResOf(r), r)

\* out = <<expression, message_type>>
CallDeduceExpression ==
    /\ Drawn("deduce_expression_type")
    /\ LET r == deduce_expression_type(planner, last.out[1], last.out[2]) IN
       Pure("deduce_expression_type", ResOf(r), r)

\* out = <<expression, the type the message was written for, message, checked>>
CallEvaluate ==
    /\ Drawn("evaluate")
    /\ LET r == evaluate(last.out[1], last.out[3], last.out[4]) IN
       Pure("evaluate", IF r = Panic THEN "panic" ELSE "ok", r)

\* out = <<db_type, db_value>>
CallMatch ==
    /\ Drawn("match_type_value")
    /\ LET r == match_type_value(last.out[1], last.out[2]) IN
       Pure("match_type_value", "ok", r)

NextExpr ==
    \/ CallDeduceBinary
    \/ CallDeduceUnary
    \/ CallDeduceExpression
    \/ CallEvaluate
    \/ CallMatch

SpecExpr == InitExpr /\ [][NextExpr]_vars

(***************************************************************************)
(* Claims about expressions and their types.                                *)
(***************************************************************************)
\* C21: type soundness: whenever deduce_expression_type(e, M) succeeds with
\* type T and the message m matches M, e.evaluate(m) does not panic and
\* returns a value whose tag is that of T.
C21_TypeSoundness ==
    (/\ last.op = "evaluate"
     /\ match_message(last.out[2], last.out[3])
     /\ deduce_expression_type(planner, last.out[1], last.out[2]).ok)
        => /\ last.ret # Panic
           /\ last.ret.tag = deduce_expression_type(planner, last.out[1], last.out[2]).type.tag

\* C22: deduce_binary_op_type for Equals and NotEquals yields Bool whenever
\* the two operand types are equal, whatever the type, and fails with
\* WrongOperandTypes when they differ.
C22_EqualsIsBool ==
    (last.op = "deduce_binary_op_type" /\ last.out[1] \in {"Equals", "NotEquals"})
        => IF last.out[2] = last.out[3] THEN last.ret = TypeOk(TPrim("Bool"))
           ELSE last.ret = TypeErr("WrongOperandTypes")

\* C23: the typing table of the other binary operators: arithmetic on two
\* Int, two UInt or two Double yields the operand type, LessThan and
\* GreaterThan on two Int, UInt, Double or String yield Bool, And and Or on
\* two Bool yield Bool, and every other combination fails with
\* WrongOperandTypes; the filter of deduce_expression_test deduces Bool.
C23_TypingTable ==
    /\ (last.op = "deduce_binary_op_type" /\ last.out[1] \notin {"Equals", "NotEquals"})
        => LET op == last.out[1]
               l == last.out[2]
               r == last.out[3]
               Is(tags) == l = r /\ l \in {TPrim(t) : t \in tags}
           IN last.ret =
                IF op \in {"Add", "Subtract", "Multiply", "Divide"}
                      /\ Is({"Int", "UInt", "Double"})
                THEN TypeOk(l)
                ELSE IF op \in {"LessThan", "GreaterThan"}
                           /\ Is({"Int", "UInt", "Double", "String"})
                THEN TypeOk(TPrim("Bool"))
                ELSE IF op \in {"And", "Or"} /\ Is({"Bool"})
                THEN TypeOk(TPrim("Bool"))
                ELSE TypeErr("WrongOperandTypes")
    /\ (/\ last.op = "deduce_expression_type"
        /\ last.out[1] = BinaryOp("Or", ColumnRef(1),
                                  BinaryOp("GreaterThan", ColumnRef(0), Literal(VUInt(1))))
        /\ last.out[2] = Something)
        => last.ret = TypeOk(TPrim("Bool"))

C23_Witness ==
    /\ last.op = "deduce_expression_type"
    /\ last.out[1] = BinaryOp("Or", ColumnRef(1),
                              BinaryOp("GreaterThan", ColumnRef(0), Literal(VUInt(1))))
    /\ last.out[2] = Something
    /\ last.ret = TypeOk(TPrim("Bool"))

\* C24: deduce_unary_op_type for EnumMatch(arms): on an operand of an enum
\* type it succeeds only if there are as many arms as variants and every
\* arm, typed against the fields of its own variant, deduces to one common
\* type, which is the result; arms that deduce to differing types fail with
\* AmbiguousMatchType, an empty arm list with EmptyMatchCases, and a count
\* of arms other than that of the variants, or an operand that is no enum,
\* with WrongOperandTypes.
C24_EnumMatchType ==
    (last.op = "deduce_unary_op_type" /\ last.out[1].kind = "EnumMatch")
        => LET arms == last.out[1].expressions
               E == last.out[2]
               arm(i) == deduce_expression_type(planner, arms[i],
                                                VariantMessageType(E.variants[i]))
           IN IF E.tag # "EnumValue" THEN last.ret = TypeErr("WrongOperandTypes")
              ELSE IF arms = <<>> THEN last.ret = TypeErr("EmptyMatchCases")
              ELSE IF Len(arms) # Len(E.variants)
              THEN last.ret = TypeErr("WrongOperandTypes")
              ELSE IF \A i \in 1..Len(arms) : arm(i).ok
              THEN (IF \A i \in 1..Len(arms) : arm(i).type = arm(1).type
                    THEN last.ret = TypeOk(arm(1).type)
                    ELSE last.ret = TypeErr("AmbiguousMatchType"))
              ELSE ~last.ret.ok

C24_Witness ==
    /\ last.op = "deduce_unary_op_type"
    /\ last.out[1].kind = "EnumMatch"
    /\ Len(last.out[1].expressions) = 2
    /\ last.out[1].expressions[1] # last.out[1].expressions[2]
    /\ last.out[2] = TEnum(Opt)
    /\ last.ret = TypeOk(TPrim("Int"))

\* C29: match_type_value(type, value) is true iff the tags agree and,
\* recursively: a Message has as many fields as the type has columns and each
\* field matches its column's type; an EnumValue has as many dependency
\* values as the type declares, each matching its declared type, a choice
\* smaller than the number of variants, and as many payload values as the
\* chosen variant has fields, each matching its field's type.
C29_MatchTypeValue ==
    last.op = "match_type_value"
        => LET t == last.out[1]
               v == last.out[2]
           IN last.ret =
                /\ t.tag = v.tag
                /\ t.tag = "Message" =>
                     /\ Len(v.v.fields) = Len(t.columns)
                     /\ \A i \in 1..Len(t.columns) :
                           match_type_value(t.columns[i].column_type, v.v.fields[i])
                /\ t.tag = "EnumValue" =>
                     /\ Len(v.v.dependencies) = Len(t.dependencies)
                     /\ \A i \in 1..Len(t.dependencies) :
                           match_type_value(t.dependencies[i][2], v.v.dependencies[i])
                     /\ v.v.choice < Len(t.variants)
                     /\ Len(v.v.values) = Len(t.variants[v.v.choice + 1].content)
                     /\ \A i \in 1..Len(v.v.values) :
                           match_type_value(t.variants[v.v.choice + 1].content[i][2],
                                            v.v.values[i])

\* an enum value of a type with a dependency and a message payload matches,
\* as the values of enum_matching_test do
C29_Witness ==
    /\ last.op = "match_type_value"
    /\ last.out[1] = TEnum(Dep)
    /\ last.out[2] = VEnum(<<VBool(TRUE)>>, 0, <<VMessage(sSmall)>>)
    /\ last.ret = TRUE

\* C30: evaluating EnumMatch(arms) on an EnumValue with choice k evaluates
\* arms[k], and no other arm, against a row whose fields are exactly the
\* payload values of the enum value.
C30_EnumMatchArm ==
    (/\ last.op = "evaluate"
     /\ last.out[1].kind = "UnaryOp"
     /\ last.out[1].op.kind = "EnumMatch"
     /\ evaluate(last.out[1].expr, last.out[3], last.out[4]).tag = "EnumValue")
        => LET arms == last.out[1].op.expressions
               enum_value == evaluate(last.out[1].expr, last.out[3], last.out[4]).v
           IN enum_value.choice < Len(arms)
                => last.ret = evaluate(arms[enum_value.choice + 1],
                                       [fields |-> enum_value.values], last.out[4])

\* the second variant is chosen, its arm reads the variant's field, and the
\* first arm would have panicked
C30_Witness ==
    /\ last.op = "evaluate"
    /\ last.out[1] = UnaryOp(EnumMatch(<<BinaryOp("Divide", Literal(VInt(1)), Literal(VInt(0))),
                                         ColumnRef(0)>>), ColumnRef(0))
    /\ last.out[3].fields[1] = VEnum(<<>>, 1, <<VInt(3)>>)
    /\ last.ret = VInt(3)

(***************************************************************************)
(* Plans (planner_layer/logical_plan.rs, raw_expression.rs,                *)
(* query_planner.rs, executor_layer/operator.rs).  A raw expression names  *)
(* its columns and fields; a result is [ok |-> TRUE, v] or                 *)
(* [ok |-> FALSE, err].                                                    *)
(***************************************************************************)
Ok(v) == [ok |-> TRUE, v |-> v]
Err(e) == [ok |-> FALSE, err |-> e]

RawColumnRef(column_name) == [kind |-> "ColumnRef", column_name |-> column_name]
RawMessageField(field_name) == [kind |-> "MessageField", field_name |-> field_name]

Scan(table_name) == [kind |-> "Scan", table_name |-> table_name]
RawFilter(raw_expression, source) ==
    [kind |-> "Filter", raw_expression |-> raw_expression, source |-> source]
RawProjection(raw_expressions, source) ==
    [kind |-> "Projection", raw_expressions |-> raw_expressions, source |-> source]

\* the first failure of a sequence of results
FirstFailure(results) ==
    results[CHOOSE i \in 1..Len(results) :
                ~results[i].ok /\ \A j \in 1..(i - 1) : results[j].ok]
AllOk(results) == \A i \in 1..Len(results) : results[i].ok

\* TableManager::schema: the schema the table was created with
TableManager_schema(catalog, table_name) ==
    IF table_name \in DOMAIN catalog THEN Ok(catalog[table_name].schema)
    ELSE Err("ExecutorError")

get_column_index(column_name, message_type) ==
    LET found == {i \in 1..Len(message_type.columns) :
                     message_type.columns[i].column_name = column_name} IN
    IF found = {} THEN Err("ColumnNotFound")
    ELSE Ok((CHOOSE i \in found : \A j \in found : i <= j) - 1)

RECURSIVE get_leaf_ref(_)
\* Some(index) is <<index>>, None is <<>>
get_leaf_ref(expression) ==
    CASE expression.kind = "ColumnRef" -> <<expression.index>>
      [] expression.kind = "UnaryOp" -> get_leaf_ref(expression.expr)
      [] OTHER -> <<>>

is_complex_type(db_type) == db_type.tag \in {"Message", "EnumValue"}

RECURSIVE build_expression(_, _, _)
\* the MessageField arm, the operand's type deduced
build_field(op, expression, deduced_type) ==
    IF ~deduced_type.ok THEN Err(deduced_type.err)
    ELSE IF deduced_type.type.tag # "Message" THEN Err("WrongOperandTypes")
    ELSE The({IF ~index.ok THEN index
              ELSE Ok(UnaryOp(MessageField(index.v), expression))
              : index \in {get_column_index(op.field_name, deduced_type.type)}})

\* the EnumMatch arm, the operand's type deduced
build_match(state, op, expression, deduced_type) ==
    IF ~deduced_type.ok THEN Err(deduced_type.err)
    ELSE IF deduced_type.type.tag # "EnumValue" THEN Err("WrongOperandTypes")
    ELSE IF Len(op.expressions) # Len(deduced_type.type.variants)
    THEN Err("WrongOperandTypes")
    ELSE The({IF ~AllOk(result) THEN FirstFailure(result)
              ELSE Ok(UnaryOp(EnumMatch([i \in 1..Len(result) |-> result[i].v]),
                              expression))
              : result \in {[i \in 1..Len(op.expressions) |->
                               build_expression(state, op.expressions[i],
                                   VariantMessageType(deduced_type.type.variants[i]))]}})

\* the UnaryOp arm of build_expression, its operand built
build_unary(state, op, expression, message_type) ==
    CASE op.kind = "Negate" -> Ok(UnaryOp(Negate, expression))
      [] op.kind = "Not" -> Ok(UnaryOp(Not, expression))
      [] op.kind = "MessageField" ->
            The({build_field(op, expression, deduced_type)
                 : deduced_type \in
                     {deduce_expression_type(state, expression, message_type)}})
      [] op.kind = "EnumMatch" ->
            The({build_match(state, op, expression, deduced_type)
                 : deduced_type \in
                     {deduce_expression_type(state, expression, message_type)}})

\* the BinaryOp arm of build_expression, its left operand built
build_binary(state, raw_expression, left_expression, message_type) ==
    IF ~left_expression.ok THEN left_expression
    ELSE The({IF ~right_expression.ok THEN right_expression
              ELSE Ok(BinaryOp(raw_expression.op, left_expression.v, right_expression.v))
              : right_expression \in
                  {build_expression(state, raw_expression.right, message_type)}})

build_expression(state, raw_expression, message_type) ==
    CASE raw_expression.kind = "Literal" -> Ok(Literal(raw_expression.value))
      [] raw_expression.kind = "ColumnRef" ->
            The({IF index.ok THEN Ok(ColumnRef(index.v)) ELSE index
                 : index \in {get_column_index(raw_expression.column_name, message_type)}})
      [] raw_expression.kind = "BinaryOp" ->
            The({build_binary(state, raw_expression, left_expression, message_type)
                 : left_expression \in
                     {build_expression(state, raw_expression.left, message_type)}})
      [] raw_expression.kind = "UnaryOp" ->
            The({IF ~expression.ok THEN expression
                 ELSE build_unary(state, raw_expression.op, expression.v, message_type)
                 : expression \in
                     {build_expression(state, raw_expression.expr, message_type)}})

\* ref_map: the source index of each bare ColumnRef to the index of the last
\* item that is that ColumnRef
RefMap(expressions) ==
    [index \in {expressions[i].index :
                    i \in {j \in 1..Len(expressions) : expressions[j].kind = "ColumnRef"}} |->
        (CHOOSE i \in 1..Len(expressions) :
            /\ expressions[i] = ColumnRef(index)
            /\ \A j \in 1..Len(expressions) : expressions[j] = ColumnRef(index) => j <= i) - 1]

\* Dependencies that lets a missing dependency go
Dependencies_kept(expression, db_type, source_type, ref_map) ==
    IF ~is_complex_type(db_type) \/ get_leaf_ref(expression) = <<>> THEN Ok(<<>>)
    ELSE LET old == source_type.columns[get_leaf_ref(expression)[1] + 1].dependencies
             kept == SelectSeq(old, LAMBDA d : d \in DOMAIN ref_map)
         IN Ok([k \in 1..Len(kept) |-> ref_map[kept[k]]])

\* Dependencies that hands on the source's indices
Dependencies_old(expression, db_type, source_type, ref_map) ==
    IF ~is_complex_type(db_type) \/ get_leaf_ref(expression) = <<>> THEN Ok(<<>>)
    ELSE LET old == source_type.columns[get_leaf_ref(expression)[1] + 1].dependencies IN
         IF \E k \in 1..Len(old) : old[k] \notin DOMAIN ref_map
         THEN Err("DependencyDropped")
         ELSE Ok(old)

\* the dependencies of output column i: Err(DependencyDropped) or Ok(indices)
Dependencies(expression, db_type, source_type, ref_map) ==
    IF ~is_complex_type(db_type) \/ get_leaf_ref(expression) = <<>> THEN Ok(<<>>)
    ELSE LET old == source_type.columns[get_leaf_ref(expression)[1] + 1].dependencies IN
         IF \E k \in 1..Len(old) : old[k] \notin DOMAIN ref_map
         THEN Err("DependencyDropped")
         ELSE Ok([k \in 1..Len(old) |-> ref_map[old[k]]])

\* the output type of a projection: the names, the deduced types and the
\* remapped dependencies of its columns
projected_type(raw_expressions, types, deps) ==
    TMessage("", [i \in 1..Len(types) |->
                     Named(raw_expressions[i][1], types[i].type, deps[i].v)])

\* the Projection arm, every expression built and typed
build_projected(raw_expressions, logical_source, expressions, types) ==
    The({IF ~AllOk(deps) THEN FirstFailure(deps)
         ELSE Ok([kind |-> "Projection",
                  expressions |-> [i \in 1..Len(expressions) |->
                                      <<raw_expressions[i][1], expressions[i]>>],
                  source |-> logical_source,
                  message_type |-> projected_type(raw_expressions, types, deps)])
         : deps \in {[i \in 1..Len(expressions) |->
                        Dependencies(expressions[i], types[i].type,
                                     logical_source.message_type, ref_map)]
                     : ref_map \in {RefMap(expressions)}}})

\* the Projection arm of build_logical_plan over the lowered source
build_projection(state, raw_expressions, logical_source) ==
    The({IF ~AllOk(try_convert) THEN FirstFailure(try_convert)
         ELSE The({IF ~AllOk(types) THEN Err(FirstFailure(types).err)
                   ELSE build_projected(raw_expressions, logical_source,
                                        [i \in 1..Len(types) |-> try_convert[i].v], types)
                   : types \in {[i \in 1..Len(try_convert) |->
                                   deduce_expression_type(state, try_convert[i].v,
                                       logical_source.message_type)]}})
         : try_convert \in {[i \in 1..Len(raw_expressions) |->
                               build_expression(state, raw_expressions[i][2],
                                                logical_source.message_type)]}})

\* the Filter arm of build_logical_plan over the lowered source
build_filter(state, raw_expression, logical_source) ==
    The({IF ~expression.ok THEN expression
         ELSE Ok([kind |-> "Filter", expression |-> expression.v,
                  source |-> logical_source,
                  message_type |-> logical_source.message_type])
         : expression \in
             {build_expression(state, raw_expression, logical_source.message_type)}})

RECURSIVE build_logical_plan(_, _, _)
build_logical_plan(state, catalog, raw_plan) ==
    IF raw_plan.kind = "Scan"
    THEN The({IF ~schema.ok THEN schema
              ELSE Ok([kind |-> "Scan", table_name |-> raw_plan.table_name,
                       message_type |-> schema.v])
              : schema \in {TableManager_schema(catalog, raw_plan.table_name)}})
    ELSE The({IF ~logical_source.ok THEN logical_source
              ELSE IF raw_plan.kind = "Filter"
              THEN build_filter(state, raw_plan.raw_expression, logical_source.v)
              ELSE build_projection(state, raw_plan.raw_expressions, logical_source.v)
              : logical_source \in {build_logical_plan(state, catalog, raw_plan.source)}})

RECURSIVE build_physical_plan(_)
build_physical_plan(logical_plan) ==
    CASE logical_plan.kind = "Scan" ->
            [kind |-> "TableScan", table_name |-> logical_plan.table_name]
      [] logical_plan.kind = "Filter" ->
            [kind |-> "Filter", filter_expr |-> logical_plan.expression,
             source |-> build_physical_plan(logical_plan.source)]
      [] logical_plan.kind = "Projection" ->
            [kind |-> "Projection",
             expressions |-> [i \in 1..Len(logical_plan.expressions) |->
                                 logical_plan.expressions[i][2]],
             source |-> build_physical_plan(logical_plan.source)]

RECURSIVE ScannedTable(_)
\* the table of the TableScan a physical plan pulls from
ScannedTable(plan) ==
    IF plan.kind = "TableScan" THEN plan.table_name ELSE ScannedTable(plan.source)

\* Projection::project; a panic of one expression is a panic of the call
project(expressions, message, checked) ==
    The({IF \E i \in 1..Len(fields) : fields[i] = Panic THEN Panic ELSE Message(fields)
         : fields \in {[i \in 1..Len(expressions) |->
                          evaluate(expressions[i], message, checked)]}})

\* Filter::next on one row of its source
admit(filter_expr, item, checked) ==
    The({IF value = Panic THEN <<Panic>>
         ELSE IF value = VBool(TRUE) THEN item
         ELSE <<>>
         : value \in {evaluate(filter_expr, item[1], checked)}})

RECURSIVE Pulled(_, _, _)
\* what the operators above the scan make of one scanned row as it is pulled
\* through them: <<>> (discarded), <<row>> or <<Panic>>
Pulled(plan, message, checked) ==
    IF plan.kind = "TableScan" THEN <<message>>
    ELSE The({IF item = <<Panic>> \/ item = <<>> THEN item
              ELSE IF plan.kind = "Filter" THEN admit(plan.filter_expr, item, checked)
              ELSE <<project(plan.expressions, item[1], checked)>>
              : item \in {Pulled(plan.source, message, checked)}})

RECURSIVE drain(_, _, _, _, _, _)
\* the outcomes [m, res, out] of collecting an opened plan
drain(plan, os, m, it, acc, checked) ==
    UNION {
      IF n.res = "some"
      THEN UNION {IF item = <<Panic>> THEN {[m |-> n.m, res |-> "panic", out |-> acc]}
                  ELSE drain(plan, os, n.m, n.it, acc \o item, checked)
                  : item \in {Pulled(plan, n.message, checked)}}
      ELSE {[m |-> n.m,
             res |-> IF n.res = "none" THEN "ok" ELSE "panic",
             out |-> acc]}
      : n \in MessageIterator_next(os, m, it)}

(***************************************************************************)
(* Plans built and executed over a table, as plan_conversion_test does:    *)
(* the table is created and filled, a raw plan is lowered, and the plan    *)
(* that was built is opened and collected.  In last, arg is the raw plan,  *)
(* ret the result of build_logical_plan (for an execution: 1 when the      *)
(* build checks overflow, 0 when it wraps) and out the rows collected.     *)
(***************************************************************************)
\* a message that holds a message, and a schema whose column B depends on
\* column A
Wrap == TMessage("Wrap", <<Named("c", Text, <<>>)>>)
Dependent ==
    TMessage("B", <<Named("A", TPrim("UInt"), <<>>), Named("B", Wrap, <<0>>),
                    Named("c", TPrim("Bool"), <<>>)>>)
PlanSchemas == {Something, Dependent}

PlanBatches == UNION {[1..n -> SomethingRows] : n \in 0..MaxBatch}

\* the filter of plan_conversion_test, filters that are not of type Bool or
\* of no type, and filters over a column no schema has
RawFilters ==
    {BinaryOp("Or", RawColumnRef("B"),
              BinaryOp("GreaterThan", RawColumnRef("A"), Literal(VUInt(1)))),
     RawColumnRef("B"),
     RawColumnRef("A"),
     UnaryOp(Not, RawColumnRef("B")),
     BinaryOp("And", RawColumnRef("A"), RawColumnRef("B")),
     BinaryOp("Add", RawColumnRef("B"), RawColumnRef("A")),
     BinaryOp("Equals", RawColumnRef("A"), Literal(VUInt(5))),
     RawColumnRef("Text")}

\* the projection of plan_conversion_test, and projections that keep, drop,
\* repeat and compute on the columns
RawItems ==
    {<< <<"c", RawColumnRef("c")>>,
        <<"A", BinaryOp("Add", Literal(VUInt(2)), RawColumnRef("A"))>> >>,
     << <<"A", RawColumnRef("A")>> >>,
     << <<"B", RawColumnRef("B")>> >>,
     << <<"A", RawColumnRef("A")>>, <<"B", RawColumnRef("B")>> >>,
     << <<"B", RawColumnRef("B")>>, <<"A", RawColumnRef("A")>> >>,
     << <<"A", RawColumnRef("A")>>, <<"c", RawColumnRef("A")>>, <<"B", RawColumnRef("B")>> >>,
     << <<"A", BinaryOp("Add", Literal(VUInt(0)), RawColumnRef("A"))>>,
        <<"B", RawColumnRef("B")>> >>,
     << <<"c", UnaryOp(RawMessageField("c"), RawColumnRef("B"))>> >>,
     << <<"A", RawColumnRef("A")>>,
        <<"c", UnaryOp(RawMessageField("c"), RawColumnRef("B"))>> >>,
     << <<"A", RawColumnRef("A")>>,
        <<"c", UnaryOp(RawMessageField("c"),
                       UnaryOp(RawMessageField("c"), RawColumnRef("B")))>> >>,
     << <<"A", BinaryOp("And", RawColumnRef("A"), RawColumnRef("B"))>> >>}

NoFilter == {Scan(n) : n \in Names \cup Strangers}
Filtered == {RawFilter(f, Scan(n)) : f \in RawFilters, n \in Names}
RawPlans ==
    NoFilter \cup Filtered
        \cup {RawProjection(items, source) :
                items \in RawItems, source \in Filtered \cup {Scan(n) : n \in Names}}

BuildPlan(raw_plan) ==
    /\ Running
    /\ \E r \in {build_logical_plan(planner, tables, raw_plan)} :
         last' = [Call("build_logical_plan", "", ResOf(r)) EXCEPT
                    !.arg = raw_plan, !.ret = r]
    /\ UNCHANGED <<disk, st, cache, tables, rows>>

\* build_physical_plan, open().unwrap(), collect() on a plan that was built
Execute(raw_plan, physical_plan, table_name, checked) ==
    IF table_name \notin DOMAIN tables
    THEN /\ last' = [Call("execute", table_name, "TableNotFound") EXCEPT
                       !.arg = raw_plan, !.ret = IF checked THEN 1 ELSE 0]
         /\ UNCHANGED <<disk, st, cache, tables, rows>>
    ELSE \E o \in drain(physical_plan, tables[table_name], M, ObjectStorage_iter,
                        <<>>, checked) :
           /\ SetM(o.m)
           /\ last' = [Call("execute", table_name, o.res) EXCEPT
                         !.out = o.out, !.arg = raw_plan, !.ret = IF checked THEN 1 ELSE 0]
           /\ UNCHANGED <<tables, rows>>

\* build_logical_plan(..).unwrap(), then the plan executed
ExecutePlan(raw_plan, checked) ==
    /\ Running
    /\ \E logical_plan \in {build_logical_plan(planner, tables, raw_plan)} :
         /\ logical_plan.ok
         /\ \E physical_plan \in {build_physical_plan(logical_plan.v)} :
              Execute(raw_plan, physical_plan, ScannedTable(physical_plan), checked)

\* a run fills the table and then builds or executes one plan
Filling == last.op \notin {"build_logical_plan", "execute"}

NextPlan ==
    \/ \E n \in Names, s \in PlanSchemas :
          Filling /\ create_table(n, s) /\ UNCHANGED <<freed, live, shadow, planner>>
    \/ \E n \in Names, b \in PlanBatches :
          Filling /\ insert_messages(n, b) /\ UNCHANGED <<freed, live, shadow, planner>>
    \/ \E p \in RawPlans :
          Filling /\ BuildPlan(p) /\ UNCHANGED <<freed, live, shadow, planner>>
    \/ \E p \in RawPlans, checked \in BOOLEAN :
          Filling /\ ExecutePlan(p, checked) /\ UNCHANGED <<freed, live, shadow, planner>>

SpecPlan == Init /\ [][NextPlan]_vars


(***************************************************************************)
(* Claims about plans.                                                     *)
(***************************************************************************)
\* the source of the raw plan last built, lowered
LoweredSource == build_logical_plan(planner, tables, last.arg.source)

\* C25: a Filter whose expression is ill-typed (its type cannot be deduced
\* against the source's output type) is rejected: whenever build_logical_plan
\* returns a plan for a Filter, the type of the filter expression it holds
\* deduces against the output type of the source.
C25_FilterTyped ==
    (/\ last.op = "build_logical_plan"
     /\ last.arg.kind = "Filter"
     /\ last.ret.ok)
        => deduce_expression_type(planner, last.ret.v.expression,
                                  LoweredSource.v.message_type).ok


\* the built expression of item i of the raw projection last built, and its
\* type, against the output type of the lowered source
BuiltItem(i) ==
    build_expression(planner, last.arg.raw_expressions[i][2], LoweredSource.v.message_type)
ItemType(i) ==
    deduce_expression_type(planner, BuiltItem(i).v, LoweredSource.v.message_type)

\* a Projection was last built whose source lowers and whose items are all
\* built and typed
ProjectionTyped ==
    /\ last.op = "build_logical_plan"
    /\ last.arg.kind = "Projection"
    /\ LoweredSource.ok
    /\ \A i \in 1..Len(last.arg.raw_expressions) : BuiltItem(i).ok
    /\ \A i \in 1..Len(last.arg.raw_expressions) : ItemType(i).ok

\* the dependencies of the source column that item i bottoms out in, when
\* the item is composite-typed and bottoms out in a ColumnRef; none otherwise
SourceDependencies(i) ==
    IF ItemType(i).type.tag \in {"Message", "EnumValue"} /\ get_leaf_ref(BuiltItem(i).v) # <<>>
    THEN LoweredSource.v.message_type.columns[get_leaf_ref(BuiltItem(i).v)[1] + 1].dependencies
    ELSE <<>>

\* the items that are the bare ColumnRef(src)
Projecting(src) ==
    {j \in 1..Len(last.arg.raw_expressions) : BuiltItem(j).v = ColumnRef(src)}

\* C26: a Projection that keeps a composite-typed column bottoming out in
\* ColumnRef(src) while some dependency of src is not projected as a bare
\* ColumnRef fails with DependencyDropped; when every such dependency is
\* projected the plan is built.
C26_DependencyDropped ==
    ProjectionTyped
        => IF \E i \in 1..Len(last.arg.raw_expressions) :
                 \E k \in 1..Len(SourceDependencies(i)) :
                     Projecting(SourceDependencies(i)[k]) = {}
           THEN last.ret = Err("DependencyDropped")
           ELSE last.ret.ok

\* column B of Dependent, which depends on column A, is projected alone
C26_Witness ==
    /\ ProjectionTyped
    /\ last.arg = RawProjection(<< <<"B", RawColumnRef("B")>> >>, Scan("A"))
    /\ LoweredSource.v.message_type = Dependent
    /\ last.ret = Err("DependencyDropped")

\* C27: the output type of a built Projection is named "" and has one column
\* per item, in item order, named by the alias and typed by the deduced type
\* of the item's expression; a composite-typed column that bottoms out in
\* ColumnRef(src) has as dependencies the output indices of the items that
\* project src's dependencies, every other column has none.
C27_ProjectionType ==
    (ProjectionTyped /\ last.ret.ok)
        => LET message_type == last.ret.v.message_type IN
           /\ message_type.tag = "Message"
           /\ message_type.name = ""
           /\ Len(message_type.columns) = Len(last.arg.raw_expressions)
           /\ \A i \in 1..Len(last.arg.raw_expressions) :
                 /\ message_type.columns[i].column_name = last.arg.raw_expressions[i][1]
                 /\ message_type.columns[i].column_type = ItemType(i).type
                 /\ message_type.columns[i].dependencies =
                        [k \in 1..Len(SourceDependencies(i)) |->
                            (CHOOSE j \in Projecting(SourceDependencies(i)[k]) :
                                \A l \in Projecting(SourceDependencies(i)[k]) : l <= j) - 1]

\* columns B and A of Dependent are projected in that order: B depends on
\* output column 1
C27_Witness ==
    /\ ProjectionTyped
    /\ last.arg = RawProjection(<< <<"B", RawColumnRef("B")>>, <<"A", RawColumnRef("A")>> >>,
                                Scan("A"))
    /\ LoweredSource.v.message_type = Dependent
    /\ last.ret.ok
    /\ last.ret.v.message_type.columns[1].dependencies = <<1>>


\* the physical plan of the raw plan last executed
ExecutedPlan == build_physical_plan(build_logical_plan(planner, tables, last.arg).v)

\* the rows inserted into the scanned table that the filter of the executed
\* plan admits, in insertion order
Admitted ==
    SelectSeq(rows[last.name].seq,
              LAMBDA row : evaluate(ExecutedPlan.source.filter_expr, row, last.ret = 1) = VBool(TRUE))

\* a Projection over a Filter over a TableScan of an existing table was
\* opened and collected
ExecutedProjection ==
    /\ last.op = "execute"
    /\ last.arg.kind = "Projection"
    /\ last.arg.source.kind = "Filter"
    /\ last.name \in DOMAIN tables

\* C28: collecting an opened Projection over a Filter over a TableScan yields,
\* in insertion order, one projected row (each projection expression
\* evaluated on the stored row) for each stored row whose filter expression
\* evaluates to Bool(true), and nothing else, and then ends.
C28_ProjectFilterScan ==
    ExecutedProjection
        => /\ last.res = "ok"
           /\ last.out =
                [i \in 1..Len(Admitted) |->
                    Message([k \in 1..Len(ExecutedPlan.expressions) |->
                                evaluate(ExecutedPlan.expressions[k], Admitted[i], last.ret = 1)])]


(***************************************************************************)
(* Claims about the dirty bit, durability and the pool's bookkeeping.      *)
(***************************************************************************)
\* the call that led to the next state changed its page: a successful
\* append_data, write_data or set_obj_count, or a cut_data that truncated
Mutated ==
    /\ last'.res = "ok"
    /\ \/ last'.op \in {"append_data", "write_data", "set_obj_count"}
       \/ last'.op = "cut_data" /\ last'.arg < Len(PageIn(M, last'.id).data)

\* C31: every PagedStorage mutator (append_data, write_data, a cut_data that
\* truncates, set_obj_count) leaves the dirty bit of its page set, so that
\* the next flush stores the page as the call left it.
C31_MutatorsSetDirty ==
    [][Mutated =>
          /\ DirtyIn(M', last'.id)
          /\ read_page(flush(M'), last'.id).page = PageIn(M', last'.id)]_vars


\* the paged storage driven between two flushes: every call of NextPages
\* but flush
NextBetweenFlushes ==
    \/ PagesAllocate
    \/ \E id \in Allocated, data \in Appended : PagesAppend(id, data)
    \/ \E id \in Allocated, offset \in Offsets, data \in Written :
          PagesWrite(id, offset, data)
    \/ \E id \in Allocated, len \in Lens : PagesCut(id, len)
    \/ \E id \in Allocated, obj_count \in Counts : PagesSetCount(id, obj_count)
    \/ \E id \in Allocated, offset \in Offsets, len \in Lens : PagesRead(id, offset, len)
    \/ \E id \in Allocated : PagesGetCount(id)

SpecBetweenFlushes == InitPages /\ [][NextBetweenFlushes]_vars

\* the calls on existing pages: each goes through get_page or get_page_mut
OnExistingPage ==
    last'.op \in {"append_data", "write_data", "cut_data", "set_obj_count",
                  "read_data", "get_obj_count"}

\* C32: between two flushes no operation on existing pages alters the bytes
\* the blob store holds for any page.
C32_OnlyFlushStores ==
    [][OnExistingPage => disk' = disk]_vars

\* C32, with eviction: between two flushes an operation on existing pages
\* alters the stored bytes of a page only by evicting it: the call missed,
\* the pool was full and every entry dirty, and the page is stored as it was
\* cached; every dirty entry that leaves the pool is stored so, and no blob
\* appears or disappears.
C32_OnlyEvictionStores ==
    [][OnExistingPage =>
          /\ DOMAIN disk' = DOMAIN disk
          /\ \A id \in DOMAIN disk :
                disk'[id] # disk[id] =>
                    /\ id \in DOMAIN cache /\ id \notin DOMAIN cache'
                    /\ last'.id \notin DOMAIN cache
                    /\ Cardinality(DOMAIN cache) >= Capacity
                    /\ \A k \in DOMAIN cache : cache[k].dirty
                    /\ disk'[id] = EncodePage(cache[id].page)
          /\ \A id \in DOMAIN cache \ DOMAIN cache' :
                cache[id].dirty => disk'[id] = EncodePage(cache[id].page)]_vars

\* no flush was ever called and no page was allocated after the newest one,
\* which was filled, is out of the pool and is stored with its bytes: a
\* call on another page evicted it
C32_Witness ==
    /\ last.op \in {"append_data", "write_data", "cut_data", "set_obj_count",
                    "read_data", "get_obj_count"}
    /\ last.id # st.next_page_id - 1
    /\ st.next_page_id - 1 \in Allocated
    /\ st.next_page_id - 1 \notin DOMAIN cache
    /\ read_page(M, st.next_page_id - 1).page.data # <<>>


(***************************************************************************)
(* Claims about insertion, iteration and the tables' bookkeeping.          *)
(***************************************************************************)
RECURSIVE BytesRead(_)
\* the bytes a sequence of records takes on its page
BytesRead(recs) == IF recs = <<>> THEN 0 ELSE Head(recs).read + BytesRead(Tail(recs))

\* recs, the records read from the page, are obj_count whole records that
\* take all of its data, within page_size
WholeRecords(page, recs) ==
    /\ Len(recs) = page.obj_count
    /\ BytesRead(recs) = Len(page.data)
    /\ Len(page.data) <= st.page_size

RECURSIVE CountSum(_)
\* the sum of a list of object counts
CountSum(counts) == IF counts = <<>> THEN 0 ELSE Head(counts) + CountSum(Tail(counts))

\* C33: insert_messages with a batch of rows that all match the schema
\* succeeds; the page list only grows, by at most one page per row of the
\* batch; every page holds whole records only; the object counts rise by
\* one per row in all, none falls, and the records added stand for the rows
\* of the batch.
C33_NoPageFull ==
    [][(last'.op = "insert_messages" /\ last'.res # "TableNotFound" /\ ~last'.bad) =>
          \E n \in {last'.name} :
          \E given \in {SubSeq(rows'[n].seq, Len(rows[n].seq) + 1, Len(rows'[n].seq))} :
          \E old \in {tables[n].pages} :
          \E new \in {tables'[n].pages} :
          \E before \in {[i \in 1..Len(old) |-> PageView(old[i]).obj_count]} :
          \E after \in {[i \in 1..Len(new) |-> PageView(new[i])']} :
          \E recs \in {[i \in 1..Len(new) |->
                           PageRecords(after[i].data, 1, after[i].obj_count)]} :
          \E all \in {Concat(recs)} :
             /\ last'.res = "ok"
             /\ Len(new) >= Len(old)
             /\ SubSeq(new, 1, Len(old)) = old
             /\ given # <<>> => Len(new) - Len(old) <= Len(given)
             /\ \A i \in 1..Len(new) : WholeRecords(after[i], recs[i])'
             /\ \A i \in 1..Len(old) : after[i].obj_count >= before[i]
             /\ CountSum([i \in 1..Len(new) |-> after[i].obj_count])
                    = CountSum(before) + Len(given)
             /\ Len(all) >= Len(given)
             /\ \A i \in 1..Len(given) :
                   StoredAs(tables[n], all[Len(all) - Len(given) + i], given[i])']_vars

\* a row of exactly page_size bytes went whole to a second page, after a
\* first page that holds a row
C33_Witness ==
    /\ last.op = "insert_messages" /\ last.res = "ok" /\ ~last.bad
    /\ Len(tables[last.name].pages) = 2
    /\ PageView(tables[last.name].pages[1]).obj_count >= 1
    /\ PageView(tables[last.name].pages[2]).obj_count = 1
    /\ Len(PageView(tables[last.name].pages[2]).data) = st.page_size


\* the rows a list of records stands for
Resolved(recs) == [i \in 1..Len(recs) |-> Resolve(recs[i])]

\* the object counts of the pages of a table
PageCounts(os) == [i \in 1..Len(os.pages) |-> PageView(os.pages[i]).obj_count]

\* C34: iterating a table that only successful inserts have reached ends
\* without failing after exactly as many rows as the sum of its pages'
\* object counts, the rows being those of its records page by page, and an
\* iteration started right after another yields the same sequence.
C34_IterationFinite ==
    [][(last'.op = "iter" /\ last'.name \in DOMAIN tables'
           /\ rows'[last'.name].status = "clean") =>
          \E n \in {last'.name} :
             /\ last'.res = "ok"
             /\ Len(last'.out) = CountSum(PageCounts(tables[n]))'
             /\ last'.out = Resolved(TableRecords(tables[n]))'
             /\ (last.op = "iter" /\ last.name = n /\ last.res = "ok")
                   => last'.out = last.out]_vars


\* C35: iterating a table that holds no rows (newly created, after an empty
\* batch, after a batch whose first row was rejected) ends without failing
\* and yields no row.
C35_EmptyTableIterates ==
    (last.op = "iter" /\ Known(last.name) /\ rows[last.name].seq = <<>>)
    => (last.res = "ok" /\ last.out = <<>>)


(***************************************************************************)
(* The buffer pool with page deletion: the calls of buffer_pool_test and   *)
(* storage_test together.  Pages are allocated, changed, looked up (also   *)
(* under ids that were deleted or never allocated), flushed and deleted;   *)
(* freed lists the ids deleted, shadow holds the pages not deleted.        *)
(***************************************************************************)
\* the ids a caller looks up: those allocated and the next one
Asked == DEFAULT_PAGE..st.next_page_id

\* get_page(id) under any id; res is its result, out and ret the data and
\* the object count it shows
PoolLookup(id) ==
    \E g \in get_page(M, id) :
        /\ SetM(g.m)
        /\ last' = [Call("get_page", "", g.err) EXCEPT
                      !.id = id,
                      !.out = IF g.err = "ok" THEN g.m.cache[id].page.data ELSE <<>>,
                      !.ret = IF g.err = "ok" THEN g.m.cache[id].page.obj_count ELSE 0,
                      !.prev = Brief(last)]
        /\ UNCHANGED <<tables, rows, freed, live, shadow, planner>>

\* delete_page(id) of a page the caller holds; ret tells whether its cache
\* entry was dirty
PoolDelete(id) ==
    /\ SetM(BufferPool_delete_page(M, id))
    /\ freed' = Append(freed, id)
    /\ shadow' = Del(shadow, id)
    /\ last' = [Call("delete_page", "", "ok") EXCEPT
                  !.id = id,
                  !.ret = IF id \in DOMAIN cache /\ cache[id].dirty THEN 1 ELSE 0]
    /\ UNCHANGED <<tables, rows, live, planner>>

NextDelete ==
    \/ PoolAllocate
    \/ \E id \in DOMAIN shadow, data \in Datas : PoolModify(id, data)
    \/ \E id \in Asked : PoolLookup(id)
    \/ PoolFlush
    \/ \E id \in DOMAIN shadow : PoolDelete(id)

SpecDelete == InitPages /\ [][NextDelete]_vars

NotFound(m, id) == get_page(m, id) = {[m |-> m, err |-> "PageNotFound"]}

\* C37: a page deleted through the buffer pool is in neither the cache nor
\* the blob store in any later state (flushes and evictions included), and
\* get_page and read_page fail on its id with PageNotFound as they do on an
\* id never allocated.
C37_DeletedStaysDead ==
    /\ \A id \in Range(freed) :
          /\ id \notin DOMAIN cache
          /\ id \notin DOMAIN disk
          /\ id \notin DOMAIN flush(M).disk
          /\ read_page(M, id) = read_page(M, st.next_page_id)
          /\ read_page(M, id).err = "PageNotFound"
          /\ NotFound(M, id) /\ NotFound(M, st.next_page_id)
    /\ (last.op = "get_page" /\ last.id \in Range(freed)) => last.res = "PageNotFound"

\* a page was deleted while its cache entry was dirty
C37_Witness ==
    /\ last.op = "delete_page" /\ last.ret = 1
    /\ last.id \in Range(freed)
    /\ DOMAIN shadow # {}


(***************************************************************************)
(* Two tables side by side, as table_manager_test keeps them: both of the  *)
(* schema Text, filled one row at a time with rows that fit a page and     *)
(* rows that overflow, or with an overflowing row followed by a rejected   *)
(* one.                                                                    *)
(***************************************************************************)
Tenants == {"A", "B"}
TenantBatches == {<<sSmall>>, <<sOver>>, <<sOver, mWrong>>}

NextTables ==
    \/ \E n \in Tenants : create_table(n, Text) /\ UNCHANGED <<freed, live, shadow, planner>>
    \/ \E n \in Tenants : drop_table(n) /\ UNCHANGED <<freed, live, shadow, planner>>
    \/ \E n \in Tenants : \E b \in TenantBatches :
          insert_messages(n, b) /\ UNCHANGED <<freed, live, shadow, planner>>
    \/ \E n \in Tenants : iter(n) /\ UNCHANGED <<freed, live, shadow, planner>>
    \/ Reopen

SpecTables == Init /\ [][NextTables]_vars

\* the ids of the Index records on the pages of a table
IndexIds(os) == {rec.id : rec \in {r \in Range(TableRecords(os)) : r.kind = "Index"}}

\* the ids a table holds
HeldIds(os) == Range(os.pages) \cup Range(os.overflow_pages)

\* C38: for every table whose state no restart has cut back, the ids of the
\* Index records on its pages are the ids of its overflow_pages list, each
\* of them holds a Real record in the blob store, and no id is held by two
\* tables or is in both lists of one.
C38_OverflowBookkeeping ==
    /\ \A n \in DOMAIN tables :
          Known(n) =>
             /\ IndexIds(tables[n]) = Range(tables[n].overflow_pages)
             /\ \A id \in Range(tables[n].overflow_pages) :
                   /\ id \in DOMAIN disk
                   /\ DecodeWrapped(disk[id]).ok
                   /\ DecodeWrapped(disk[id]).kind = "Real"
             /\ Range(tables[n].pages) \cap Range(tables[n].overflow_pages) = {}
    /\ \A n, m \in DOMAIN tables :
          (n # m /\ Known(n) /\ Known(m))
             => HeldIds(tables[n]) \cap HeldIds(tables[m]) = {}

\* a table with an overflow row whose id had been a page of a dropped
\* table, beside another table that holds a page
C38_Witness ==
    /\ last.op = "insert_messages"
    /\ \E n, m \in DOMAIN tables :
          /\ n # m /\ Known(n) /\ Known(m)
          /\ tables[m].pages # <<>>
          /\ \E id \in Range(tables[n].overflow_pages), p \in Range(tables[n].pages) :
                id < p


\* what iterating a table from its start can yield: the result and the rows
Iterated(os, m) == {[res |-> o.res, out |-> o.out] : o \in collect(os, m, ObjectStorage_iter, <<>>)}

\* C39: insert_messages into a table and drop_table of a table leave every
\* other table registered with the schema it had, and leave what iterating
\* it yields as it was.
C39_TableIsolation ==
    [][last'.op \in {"insert_messages", "drop_table"} =>
          \A m \in DOMAIN tables \ {last'.name} :
             /\ m \in DOMAIN tables'
             /\ tables'[m].schema = tables[m].schema
             /\ Iterated(tables'[m], M') = Iterated(tables[m], M)]_vars

\* a row that overflows went to an id a dropped table had freed, beside
\* another table whose page was not in the cache
C39_Witness ==
    /\ last.op = "insert_messages" /\ last.res = "ok"
    /\ \E m \in DOMAIN tables \ {last.name} :
          /\ rows[m].seq # <<>>
          /\ Range(tables[m].pages) \cap DOMAIN cache = {}
          /\ \E id \in Range(tables[last.name].overflow_pages) :
                id < tables[last.name].pages[1]


\* C40: in the MessageType of every Projection that build_logical_plan
\* builds, each dependency index of a column is less than the column's own
\* index (indices count from 0).
C40_DependenciesPrecede ==
    (last.op = "build_logical_plan" /\ last.arg.kind = "Projection" /\ last.ret.ok)
        => \A i \in 1..Len(last.ret.v.message_type.columns) :
              \A k \in 1..Len(last.ret.v.message_type.columns[i].dependencies) :
                  last.ret.v.message_type.columns[i].dependencies[k] < i - 1

====
